---- MODULE Spec2Model ----
(***************************************************************************)
(* Model of the sunset countdown:                                          *)
(*   src/src/services/sunset-calculator.ts                                 *)
(*   src/src/services/milestone-calculator.ts                              *)
(* of the location service (src/unnamed/part_000, GeolocationService) and  *)
(* of the application object (src/src/main.ts, SunsetCountdownApp).        *)
(*                                                                         *)
(* Representation.                                                         *)
(*  - A Date is [day, ms]: day is the local calendar day counted from      *)
(*    1 = 1 January of BaseYear, ms the milliseconds since local midnight. *)
(*    getTime() of such a date is (day * MsPerDay + ms); differences of    *)
(*    instants are kept as (whole days, remainder ms) pairs because the    *)
(*    product does not fit 32-bit integers.                                *)
(*  - Latitude and longitude are kept in tenths of a degree, so that the   *)
(*    66.5 degree threshold is the integer 665.                            *)
(*  - The sunrise-sunset-js library is the environment.  For each calendar *)
(*    day it answers getSunset / getSunrise with a Date, with an absent    *)
(*    value, or by throwing.  The variable oracle fixes the answers of one *)
(*    behaviour; it is periodic with period Window days.                   *)
(***************************************************************************)
EXTENDS Integers, Sequences, FiniteSets, TLC

VARIABLES oracle, pc, call, i, results, ret, oracleCalls

\* the fields of the GeolocationService instance, the browser objects it
\* uses, the detections in flight and the last completed call of the service
VARIABLES currentLocation, watchId, navigator, localStorage, pending, geoRet

geoVars == <<currentLocation, watchId, navigator, localStorage, pending, geoRet>>

coreVars == <<oracle, pc, call, i, results, ret, oracleCalls>>

\* the fields of the SunsetCountdownApp instance, and the window of the
\* browser: its interval timers and the elements of the page the app writes
VARIABLES app, window

appVars == <<app, window>>

vars == <<oracle, pc, call, i, results, ret, oracleCalls,
          currentLocation, watchId, navigator, localStorage, pending, geoRet, app, window>>

(***************************************************************************)
(* Bounds of the model.                                                    *)
(***************************************************************************)
Window == 2
MaxDaysBound == 3
MaxPending == 1
MaxWatchId == 2

(***************************************************************************)
(* Program constants.                                                      *)
(***************************************************************************)
MsPerSecond == 1000
MsPerMinute == 60000
MsPerHour == 3600000
MsPerDay == 86400000
PolarLatitude == 665
SummerFirstDay == 150
SummerLastDay == 200
WinterFirstDay == 340
WinterLastDay == 50
BaseYear == 2024

(***************************************************************************)
(* Dates.                                                                  *)
(***************************************************************************)
Abs(n) == IF n < 0 THEN -n ELSE n

IsLeapYear(y) == (y % 4 = 0 /\ y % 100 # 0) \/ y % 400 = 0

DaysInYear(y) == IF IsLeapYear(y) THEN 366 ELSE 365

RECURSIVE YearDayFrom(_, _)
\* [year, dayOfYear] of the calendar day d counted from 1 January of year y
YearDayFrom(y, d) ==
  IF d <= DaysInYear(y) THEN [year |-> y, dayOfYear |-> d]
  ELSE YearDayFrom(y + 1, d - DaysInYear(y))

getFullYear(date) == YearDayFrom(BaseYear, date.day).year

getHours(date) == date.ms \div MsPerHour

getMinutes(date) == (date.ms % MsPerHour) \div MsPerMinute

\* new Date(d); setDate(getDate() + n): the local clock time is kept
addDays(date, n) == [date EXCEPT !.day = @ + n]

\* getDayOfYear: floor((date - new Date(year, 0, 0)) / MsPerDay)
getDayOfYear(date) ==
  LET wholeDays == YearDayFrom(BaseYear, date.day).dayOfYear
  IN  wholeDays + (date.ms \div MsPerDay)

(***************************************************************************)
(* Completions: a call either returns a value or throws.  calls counts     *)
(* the library invocations (getSunset, getSunrise) it made.                *)
(***************************************************************************)
Normal(v, n) == [thrown |-> FALSE, val |-> v, calls |-> n]

Throw(e, n) == [thrown |-> TRUE, err |-> e, calls |-> n]

Undefined == "undefined"

Absent == [defined |-> FALSE]

Some(v) == [defined |-> TRUE, val |-> v]

(***************************************************************************)
(* The oracle (sunrise-sunset-js).                                         *)
(***************************************************************************)
OracleError == [isError |-> TRUE, message |-> "oracle failure"]

OracleValue(t) == [kind |-> "value", ms |-> t]

OracleAbsent == [kind |-> "absent", ms |-> 0]

OracleThrow == [kind |-> "throw", ms |-> 0]

SunriseMs == 6 * MsPerHour

\* 17:59:59.999, 18:00:00.000 and 18:30:00.000
SunsetTimes == {18 * MsPerHour - 1, 18 * MsPerHour, 18 * MsPerHour + 30 * MsPerMinute}

DayOutcomes ==
  { [sunset |-> OracleValue(t), sunrise |-> OracleValue(SunriseMs)] : t \in SunsetTimes }
  \cup { [sunset |-> OracleAbsent, sunrise |-> OracleValue(SunriseMs)],
         [sunset |-> OracleValue(18 * MsPerHour), sunrise |-> OracleAbsent],
         [sunset |-> OracleThrow, sunrise |-> OracleValue(SunriseMs)] }

Oracles == [0 .. Window - 1 -> DayOutcomes]

OracleAnswer(o, date) ==
  CASE o.kind = "throw" -> Throw(OracleError, 1)
    [] o.kind = "absent" -> Normal(Absent, 1)
    [] OTHER -> Normal(Some([day |-> date.day, ms |-> o.ms]), 1)

getSunset(orc, latitude, longitude, date) ==
  OracleAnswer(orc[date.day % Window].sunset, date)

getSunrise(orc, latitude, longitude, date) ==
  OracleAnswer(orc[date.day % Window].sunrise, date)

(***************************************************************************)
(* sunset-calculator.ts                                                    *)
(***************************************************************************)
HostIntl == [available |-> TRUE, timeZone |-> "America/Los_Angeles"]

PadStart2(n) == IF n < 10 THEN "0" \o ToString(n) ELSE ToString(n)

\* Math.round(longitude / 15), longitude in tenths of a degree
getTimezone(location) ==
  IF HostIntl.available THEN HostIntl.timeZone
  ELSE LET hoursFromUTC == (2 * location.longitude + 150) \div 300
           sign == IF hoursFromUTC >= 0 THEN "+" ELSE "-"
           absHours == Abs(hoursFromUTC)
       IN  "UTC" \o sign \o PadStart2(absHours) \o ":00"

\* variant: the sunrise field is filled from the sunset value
SunsetInfo_sunriseFromSunset(sunset, sunrise, location, date) ==
  [sunset |-> sunset, sunrise |-> sunset, location |-> location,
   date |-> date, timezone |-> getTimezone(location), hasSunset |-> TRUE]

SunsetInfo(sunset, sunrise, location, date) ==
  [sunset |-> sunset, sunrise |-> sunrise, location |-> location,
   date |-> date, timezone |-> getTimezone(location), hasSunset |-> TRUE]

Result(success, sunsetInfo, error, isPolarRegion, polarType) ==
  [success |-> success, sunsetInfo |-> sunsetInfo, error |-> error,
   isPolarRegion |-> isPolarRegion, polarType |-> polarType]

PolarErrorMessage(polarType) ==
  (IF polarType = "midnight-sun" THEN "Midnight sun" ELSE "Polar night")
    \o " - no sunset during this period"

\* variant: the winter window starts after day 340 instead of on it
PolarType_winterAfter340(location, dayOfYear) ==
  LET isNorthernHemisphere == location.latitude > 0
      isSummerSolstice == dayOfYear >= SummerFirstDay /\ dayOfYear <= SummerLastDay
      isWinterSolstice == dayOfYear > WinterFirstDay \/ dayOfYear <= WinterLastDay
  IN  IF isNorthernHemisphere
      THEN (IF isSummerSolstice THEN "midnight-sun"
            ELSE IF isWinterSolstice THEN "polar-night" ELSE "midnight-sun")
      ELSE (IF isSummerSolstice THEN "polar-night"
            ELSE IF isWinterSolstice THEN "midnight-sun" ELSE "polar-night")

\* variant: outside both windows the classification is that of the winter window
PolarType_defaultWinter(location, dayOfYear) ==
  LET isNorthernHemisphere == location.latitude > 0
      isSummerSolstice == dayOfYear >= SummerFirstDay /\ dayOfYear <= SummerLastDay
      isWinterSolstice == dayOfYear >= WinterFirstDay \/ dayOfYear <= WinterLastDay
  IN  IF isNorthernHemisphere
      THEN (IF isSummerSolstice THEN "midnight-sun"
            ELSE IF isWinterSolstice THEN "polar-night" ELSE "polar-night")
      ELSE (IF isSummerSolstice THEN "polar-night"
            ELSE IF isWinterSolstice THEN "midnight-sun" ELSE "midnight-sun")

\* handlePolarRegion, the classification: polarType for a day of the year
PolarType(location, dayOfYear) ==
  LET isNorthernHemisphere == location.latitude > 0
      isSummerSolstice == dayOfYear >= SummerFirstDay /\ dayOfYear <= SummerLastDay
      isWinterSolstice == dayOfYear >= WinterFirstDay \/ dayOfYear <= WinterLastDay
  IN  IF isNorthernHemisphere
      THEN (IF isSummerSolstice THEN "midnight-sun"
            ELSE IF isWinterSolstice THEN "polar-night" ELSE "midnight-sun")
      ELSE (IF isSummerSolstice THEN "polar-night"
            ELSE IF isWinterSolstice THEN "midnight-sun" ELSE "polar-night")

\* handlePolarRegion, after the two library calls: sunset is the completion
\* of getSunset, sunrise that of getSunrise (not reached when getSunset throws)
PolarResult(location, date, polarType, sunset, sunrise) ==
  IF sunset.thrown THEN Throw(sunset.err, 1)
  ELSE IF sunrise.thrown THEN Throw(sunrise.err, 2)
  ELSE IF sunset.val.defined /\ sunrise.val.defined
  THEN Normal(Result(TRUE,
                     Some(SunsetInfo(sunset.val.val, sunrise.val.val, location, date)),
                     Undefined, "true", Undefined), 2)
  ELSE Normal(Result(FALSE, Absent, PolarErrorMessage(polarType), "true", polarType), 2)

handlePolarRegion(orc, location, date) ==
  PolarResult(location, date, PolarType(location, getDayOfYear(date)),
              getSunset(orc, location.latitude, location.longitude, date),
              getSunrise(orc, location.latitude, location.longitude, date))

\* calculateSunsetInfo below the polar check, after the two library calls
RegularResult(location, date, sunset, sunrise) ==
  IF sunset.thrown THEN Throw(sunset.err, 1)
  ELSE IF sunrise.thrown THEN Throw(sunrise.err, 2)
  ELSE IF ~sunset.val.defined \/ ~sunrise.val.defined
  THEN Normal(Result(FALSE, Absent,
                     "Unable to calculate sunset times for this location and date",
                     "false", Undefined), 2)
  ELSE Normal(Result(TRUE,
                     Some(SunsetInfo(sunset.val.val, sunrise.val.val, location, date)),
                     Undefined, Undefined, Undefined), 2)

\* variant: latitude 66.5 itself is taken for polar (>= instead of >)
calculateSunsetInfoTry_polarAt665(orc, location, date) ==
  IF Abs(location.latitude) >= PolarLatitude
  THEN handlePolarRegion(orc, location, date)
  ELSE RegularResult(location, date,
                     getSunset(orc, location.latitude, location.longitude, date),
                     getSunrise(orc, location.latitude, location.longitude, date))

\* the try block of calculateSunsetInfo
calculateSunsetInfoTry(orc, location, date) ==
  IF Abs(location.latitude) > PolarLatitude
  THEN handlePolarRegion(orc, location, date)
  ELSE RegularResult(location, date,
                     getSunset(orc, location.latitude, location.longitude, date),
                     getSunrise(orc, location.latitude, location.longitude, date))

\* catch (error) { return { success: false, error: ... } }
CatchSunsetError(c) ==
  IF c.thrown
  THEN Normal(Result(FALSE, Absent,
                     IF c.err.isError THEN c.err.message
                     ELSE "Unknown error calculating sunset",
                     Undefined, Undefined), c.calls)
  ELSE c

\* variant: no catch block, an exception of the library escapes
calculateSunsetInfo_noCatch(orc, location, date) ==
  calculateSunsetInfoTry(orc, location, date)

calculateSunsetInfo(orc, location, date) ==
  CatchSunsetError(calculateSunsetInfoTry(orc, location, date))

(***************************************************************************)
(* Instants: differences a.getTime() - b.getTime() as whole days plus a    *)
(* remainder 0 <= ms < MsPerDay.                                           *)
(***************************************************************************)
TimeDiff(a, b) ==
  [days |-> (a.day - b.day) + ((a.ms - b.ms) \div MsPerDay),
   ms |-> (a.ms - b.ms) % MsPerDay]

\* Math.ceil(diff / MsPerDay)
CeilDays(diff) == diff.days + (IF diff.ms > 0 THEN 1 ELSE 0)

\* new Date(date.getTime() + n)
addMs(date, n) ==
  [day |-> date.day + ((date.ms + n) \div MsPerDay), ms |-> (date.ms + n) % MsPerDay]

\* date.setHours(h, m, 0, 0): an hour of 24 rolls over into the next day
setHours(date, h, m) ==
  [day |-> date.day + ((h * MsPerHour + m * MsPerMinute) \div MsPerDay),
   ms |-> (h * MsPerHour + m * MsPerMinute) % MsPerDay]

\* date.setMinutes(m, 0, 0)
setMinutes(date, m) == setHours(date, getHours(date), m)

TotalMinutes(date) == getHours(date) * 60 + getMinutes(date)

(***************************************************************************)
(* findSunsetAfterTime.  One iteration of the loop either returns from the *)
(* function (ReturnValue) or lets the loop go on (Continue).               *)
(***************************************************************************)
Continue == [returned |-> FALSE]

ReturnValue(v) == [returned |-> TRUE, val |-> v]

\* variant: the comparison is strict (> instead of >=)
CheckDay_strictlyAfter(targetTime, checkDate, result) ==
  IF result.thrown THEN Throw(result.err, result.calls)
  ELSE IF result.val.success /\ result.val.sunsetInfo.defined
  THEN IF TotalMinutes(result.val.sunsetInfo.val.sunset) > TotalMinutes(targetTime)
       THEN Normal(ReturnValue(Some([date |-> checkDate,
                                     sunsetTime |-> result.val.sunsetInfo.val.sunset])),
                   result.calls)
       ELSE Normal(Continue, result.calls)
  ELSE Normal(Continue, result.calls)

\* variant: a day whose query fails ends the search with null
CheckDay_failureEndsSearch(targetTime, checkDate, result) ==
  IF result.thrown THEN Throw(result.err, result.calls)
  ELSE IF result.val.success /\ result.val.sunsetInfo.defined
  THEN IF TotalMinutes(result.val.sunsetInfo.val.sunset) >= TotalMinutes(targetTime)
       THEN Normal(ReturnValue(Some([date |-> checkDate,
                                     sunsetTime |-> result.val.sunsetInfo.val.sunset])),
                   result.calls)
       ELSE Normal(Continue, result.calls)
  ELSE Normal(ReturnValue(Absent), result.calls)

\* variant: the seconds and milliseconds of the two times are compared too
CheckDay_toTheMillisecond(targetTime, checkDate, result) ==
  IF result.thrown THEN Throw(result.err, result.calls)
  ELSE IF result.val.success /\ result.val.sunsetInfo.defined
  THEN IF result.val.sunsetInfo.val.sunset.ms >= targetTime.ms
       THEN Normal(ReturnValue(Some([date |-> checkDate,
                                     sunsetTime |-> result.val.sunsetInfo.val.sunset])),
                   result.calls)
       ELSE Normal(Continue, result.calls)
  ELSE Normal(Continue, result.calls)

\* variant: only the minutes of the hour are compared
CheckDay_minuteOfHour(targetTime, checkDate, result) ==
  IF result.thrown THEN Throw(result.err, result.calls)
  ELSE IF result.val.success /\ result.val.sunsetInfo.defined
  THEN IF getMinutes(result.val.sunsetInfo.val.sunset) >= getMinutes(targetTime)
       THEN Normal(ReturnValue(Some([date |-> checkDate,
                                     sunsetTime |-> result.val.sunsetInfo.val.sunset])),
                   result.calls)
       ELSE Normal(Continue, result.calls)
  ELSE Normal(Continue, result.calls)

\* the loop body after result = calculateSunsetInfo(location, checkDate)
CheckDay(targetTime, checkDate, result) ==
  IF result.thrown THEN Throw(result.err, result.calls)
  ELSE IF result.val.success /\ result.val.sunsetInfo.defined
  THEN IF TotalMinutes(result.val.sunsetInfo.val.sunset) >= TotalMinutes(targetTime)
       THEN Normal(ReturnValue(Some([date |-> checkDate,
                                     sunsetTime |-> result.val.sunsetInfo.val.sunset])),
                   result.calls)
       ELSE Normal(Continue, result.calls)
  ELSE Normal(Continue, result.calls)

\* the loop body for the index k
FindBody(location, targetTime, startDate, k) ==
  CheckDay(targetTime, addDays(startDate, k),
           calculateSunsetInfo(oracle, location, addDays(startDate, k)))

AddCalls(c, n) == [c EXCEPT !.calls = @ + n]

\* the iterations lo .. hi - 1 of the loop, in order, stopping at the first
\* iteration that returns (or throws); the range is halved to keep the
\* evaluation shallow, the order of the iterations is unchanged
RECURSIVE FindLoop(_, _, _, _, _)
RECURSIVE FindRest(_, _, _, _, _, _)
FindLoop(location, targetTime, startDate, lo, hi) ==
  IF ~(lo < hi) THEN Normal(Continue, 0)
  ELSE IF hi = lo + 1 THEN FindBody(location, targetTime, startDate, lo)
  ELSE FindRest(FindLoop(location, targetTime, startDate, lo, (lo + hi) \div 2),
                location, targetTime, startDate, (lo + hi) \div 2, hi)

\* the iterations mid .. hi - 1, run when those before mid did not return
FindRest(first, location, targetTime, startDate, mid, hi) ==
  IF first.thrown \/ first.val.returned THEN first
  ELSE AddCalls(FindLoop(location, targetTime, startDate, mid, hi), first.calls)

\* after the loop: return null
LoopResult(loop) ==
  IF loop.thrown THEN loop
  ELSE IF loop.val.returned THEN Normal(loop.val.val, loop.calls)
  ELSE Normal(Absent, loop.calls)

findSunsetAfterTime(location, targetTime, startDate, maxDays) ==
  LoopResult(FindLoop(location, targetTime, startDate, 0, maxDays))

(***************************************************************************)
(* milestone-calculator.ts                                                 *)
(***************************************************************************)
SearchHorizon == 365

getMilestoneType(time) ==
  IF getMinutes(time) = 0 THEN "hour"
  ELSE IF getMinutes(time) = 30 THEN "half-hour"
  ELSE "exact-sunset"

\* toLocaleTimeString('en-US', {hour: 'numeric', minute: '2-digit', hour12: true})
formatMilestoneLabel(time, type) ==
  IF type = "exact-sunset" THEN "Sunset"
  ELSE IF type = "golden-hour" THEN "Golden Hour"
  ELSE ToString(IF getHours(time) % 12 = 0 THEN 12 ELSE getHours(time) % 12)
         \o ":" \o PadStart2(getMinutes(time)) \o " "
         \o (IF getHours(time) >= 12 THEN "PM" ELSE "AM")

Milestone(time, isPrimary) ==
  [time |-> time, type |-> getMilestoneType(time),
   label |-> formatMilestoneLabel(time, getMilestoneType(time)),
   isPrimary |-> isPrimary]

NextMilestoneResult(milestone, sunsetInfo, daysUntil, error) ==
  [milestone |-> milestone, sunsetInfo |-> sunsetInfo,
   daysUntil |-> daysUntil, error |-> error]

\* variant: setMinutes(30) and setHours(h + 1, 0) leave the seconds and
\* milliseconds of the sunset in place
NextMilestoneTime_keepsSeconds(todaySunset) ==
  IF getMinutes(todaySunset) < 30
  THEN addMs(setMinutes(todaySunset, 30), todaySunset.ms % MsPerMinute)
  ELSE addMs(setHours(todaySunset, getHours(todaySunset) + 1, 0),
             todaySunset.ms % MsPerMinute)

\* variant: a sunset in minute 30 keeps the half hour (<= 30 instead of < 30)
NextMilestoneTime_halfHourStays(todaySunset) ==
  IF getMinutes(todaySunset) <= 30 THEN setMinutes(todaySunset, 30)
  ELSE setHours(todaySunset, getHours(todaySunset) + 1, 0)

\* the next 30-minute boundary after today's sunset
NextMilestoneTime(todaySunset) ==
  IF getMinutes(todaySunset) < 30 THEN setMinutes(todaySunset, 30)
  ELSE setHours(todaySunset, getHours(todaySunset) + 1, 0)

\* variant: daysUntil is measured to the sunset instant of the matched day
NextMilestoneFound_toSunsetInstant(currentDate, todayResult, nextMilestoneTime, result, futureSunsetInfo) ==
  IF futureSunsetInfo.thrown
  THEN Throw(futureSunsetInfo.err,
             todayResult.calls + result.calls + futureSunsetInfo.calls)
  ELSE Normal(NextMilestoneResult(
                Some(Milestone(nextMilestoneTime, TRUE)),
                IF futureSunsetInfo.val.success
                THEN futureSunsetInfo.val.sunsetInfo
                ELSE todayResult.val.sunsetInfo,
                CeilDays(TimeDiff(result.val.val.sunsetTime, currentDate)),
                Undefined),
              todayResult.calls + result.calls + futureSunsetInfo.calls)

\* variant: the result always carries today's sunsetInfo
NextMilestoneFound_todaysInfo(currentDate, todayResult, nextMilestoneTime, result, futureSunsetInfo) ==
  IF futureSunsetInfo.thrown
  THEN Throw(futureSunsetInfo.err,
             todayResult.calls + result.calls + futureSunsetInfo.calls)
  ELSE Normal(NextMilestoneResult(
                Some(Milestone(nextMilestoneTime, TRUE)),
                todayResult.val.sunsetInfo,
                CeilDays(TimeDiff(result.val.val.date, currentDate)),
                Undefined),
              todayResult.calls + result.calls + futureSunsetInfo.calls)

\* getNextMilestone after futureSunsetInfo = calculateSunsetInfo(location, result.date)
NextMilestoneFound(currentDate, todayResult, nextMilestoneTime, result, futureSunsetInfo) ==
  IF futureSunsetInfo.thrown
  THEN Throw(futureSunsetInfo.err,
             todayResult.calls + result.calls + futureSunsetInfo.calls)
  ELSE Normal(NextMilestoneResult(
                Some(Milestone(nextMilestoneTime, TRUE)),
                IF futureSunsetInfo.val.success
                THEN futureSunsetInfo.val.sunsetInfo
                ELSE todayResult.val.sunsetInfo,
                CeilDays(TimeDiff(result.val.val.date, currentDate)),
                Undefined),
              todayResult.calls + result.calls + futureSunsetInfo.calls)

\* getNextMilestone after result = findSunsetAfterTime(..., 365)
NextMilestoneSearched(location, currentDate, todayResult, nextMilestoneTime, result) ==
  IF result.thrown THEN Throw(result.err, todayResult.calls + result.calls)
  ELSE IF ~result.val.defined
  THEN Normal(NextMilestoneResult(Absent, Absent, 0,
                "Could not find when sunset reaches next milestone"),
              todayResult.calls + result.calls)
  ELSE NextMilestoneFound(currentDate, todayResult, nextMilestoneTime, result,
                          calculateSunsetInfo(oracle, location, result.val.val.date))

\* getNextMilestone after nextMilestoneTime is chosen
NextMilestoneFor(location, currentDate, todayResult, nextMilestoneTime) ==
  NextMilestoneSearched(location, currentDate, todayResult, nextMilestoneTime,
    findSunsetAfterTime(location, nextMilestoneTime, currentDate, SearchHorizon))

\* variant: a failed query of today is reported under a message of its own
NextMilestoneToday_ownMessage(location, currentDate, todayResult) ==
  IF todayResult.thrown THEN Throw(todayResult.err, todayResult.calls)
  ELSE IF ~todayResult.val.success
  THEN Normal(NextMilestoneResult(Absent, Absent, 0, "Could not calculate today's sunset"),
              todayResult.calls)
  ELSE NextMilestoneFor(location, currentDate, todayResult,
                        NextMilestoneTime(todayResult.val.sunsetInfo.val.sunset))

\* getNextMilestone after todayResult = calculateSunsetInfo(location, currentDate)
NextMilestoneToday(location, currentDate, todayResult) ==
  IF todayResult.thrown THEN Throw(todayResult.err, todayResult.calls)
  ELSE IF ~todayResult.val.success
  THEN Normal(NextMilestoneResult(Absent, Absent, 0, todayResult.val.error),
              todayResult.calls)
  ELSE NextMilestoneFor(location, currentDate, todayResult,
                        NextMilestoneTime(todayResult.val.sunsetInfo.val.sunset))

\* the try block of getNextMilestone
getNextMilestoneTry(location, currentDate) ==
  NextMilestoneToday(location, currentDate,
                     calculateSunsetInfo(oracle, location, currentDate))

\* catch (error) { return { milestone: null, sunsetInfo: null, daysUntil: 0, error } }
CatchMilestoneError(c) ==
  IF c.thrown
  THEN Normal(NextMilestoneResult(Absent, Absent, 0,
                IF c.err.isError THEN c.err.message
                ELSE "Unknown error calculating milestone"), c.calls)
  ELSE c

getNextMilestone(location, currentDate) ==
  CatchMilestoneError(getNextMilestoneTry(location, currentDate))

UpcomingEntry(time, result, currentDate) ==
  [time |-> time, type |-> getMilestoneType(time),
   label |-> formatMilestoneLabel(time, getMilestoneType(time)),
   isPrimary |-> FALSE,
   targetDate |-> result.val.val.sunsetTime,
   daysUntil |-> CeilDays(TimeDiff(result.val.val.sunsetTime, currentDate))]

\* the loop of getUpcomingMilestones, from index k with the previous boundary
\* currentMilestone and the entries pushed so far
RECURSIVE UpcomingLoop(_, _, _, _, _, _, _)
RECURSIVE UpcomingAt(_, _, _, _, _, _, _)
RECURSIVE UpcomingSearched(_, _, _, _, _, _, _, _)
\* variant: the boundary advances by a whole hour
UpcomingLoop_hourSteps(location, currentDate, count, k, currentMilestone, milestones, calls) ==
  IF ~(k < count) THEN Normal(milestones, calls)
  ELSE UpcomingAt(location, currentDate, count, k,
                  addMs(currentMilestone, 60 * 60 * 1000), milestones, calls)

UpcomingLoop(location, currentDate, count, k, currentMilestone, milestones, calls) ==
  IF ~(k < count) THEN Normal(milestones, calls)
  ELSE UpcomingAt(location, currentDate, count, k,
                  addMs(currentMilestone, 30 * 60 * 1000), milestones, calls)

\* variant: the loop stops after 21:00 (minutes > 0 instead of > 30)
UpcomingAt_stopAfter2100(location, currentDate, count, k, currentMilestone, milestones, calls) ==
  IF getHours(currentMilestone) > 21
       \/ (getHours(currentMilestone) = 21 /\ getMinutes(currentMilestone) > 0)
  THEN Normal(milestones, calls)
  ELSE UpcomingSearched(location, currentDate, count, k, currentMilestone, milestones,
         calls, findSunsetAfterTime(location, currentMilestone, currentDate, SearchHorizon))

\* the loop body once currentMilestone is advanced by 30 minutes
UpcomingAt(location, currentDate, count, k, currentMilestone, milestones, calls) ==
  IF getHours(currentMilestone) > 21
       \/ (getHours(currentMilestone) = 21 /\ getMinutes(currentMilestone) > 30)
  THEN Normal(milestones, calls)
  ELSE UpcomingSearched(location, currentDate, count, k, currentMilestone, milestones,
         calls, findSunsetAfterTime(location, currentMilestone, currentDate, SearchHorizon))

\* variant: a boundary whose search finds nothing ends the loop
UpcomingSearched_notFoundEnds(location, currentDate, count, k, currentMilestone, milestones, calls, result) ==
  IF result.thrown THEN Throw(result.err, calls + result.calls)
  ELSE IF result.val.defined
  THEN UpcomingLoop(location, currentDate, count, k + 1, currentMilestone,
                    Append(milestones, UpcomingEntry(currentMilestone, result, currentDate)),
                    calls + result.calls)
  ELSE Normal(milestones, calls + result.calls)

\* the loop body after result = findSunsetAfterTime(..., 365)
UpcomingSearched(location, currentDate, count, k, currentMilestone, milestones, calls, result) ==
  IF result.thrown THEN Throw(result.err, calls + result.calls)
  ELSE IF result.val.defined
  THEN UpcomingLoop(location, currentDate, count, k + 1, currentMilestone,
                    Append(milestones, UpcomingEntry(currentMilestone, result, currentDate)),
                    calls + result.calls)
  ELSE UpcomingLoop(location, currentDate, count, k + 1, currentMilestone,
                    milestones, calls + result.calls)

\* getUpcomingMilestones after nextMilestone = getNextMilestone(location, currentDate)
UpcomingAfter(location, currentDate, count, nextMilestone) ==
  IF nextMilestone.thrown THEN Throw(nextMilestone.err, nextMilestone.calls)
  ELSE IF ~nextMilestone.val.milestone.defined
  THEN Normal(<<>>, nextMilestone.calls)
  ELSE UpcomingLoop(location, currentDate, count, 0,
                    nextMilestone.val.milestone.val.time, <<>>,
                    nextMilestone.calls)

\* the try block of getUpcomingMilestones
getUpcomingMilestonesTry(location, currentDate, count) ==
  UpcomingAfter(location, currentDate, count, getNextMilestone(location, currentDate))

\* catch (error) { return [] }
CatchUpcomingError(c) == IF c.thrown THEN Normal(<<>>, c.calls) ELSE c

getUpcomingMilestones(location, currentDate, count) ==
  CatchUpcomingError(getUpcomingMilestonesTry(location, currentDate, count))

\* variant: minutes are not reduced modulo the hour
CountdownInfo_minutesOfDay(milestone, targetDateTime, totalMilliseconds) ==
  [timeRemaining |->
     [days |-> totalMilliseconds.days,
      hours |-> (totalMilliseconds.ms % (1000 * 60 * 60 * 24)) \div (1000 * 60 * 60),
      minutes |-> totalMilliseconds.ms \div (1000 * 60),
      seconds |-> (totalMilliseconds.ms % (1000 * 60)) \div 1000],
   milestone |-> milestone,
   totalMinutes |-> totalMilliseconds.days * (24 * 60)
                      + (totalMilliseconds.ms \div (1000 * 60)),
   targetDate |-> targetDateTime]

\* calculateCountdown from totalMilliseconds = targetDateTime - now
CountdownInfo(milestone, targetDateTime, totalMilliseconds) ==
  [timeRemaining |->
     [days |-> totalMilliseconds.days,
      hours |-> (totalMilliseconds.ms % (1000 * 60 * 60 * 24)) \div (1000 * 60 * 60),
      minutes |-> (totalMilliseconds.ms % (1000 * 60 * 60)) \div (1000 * 60),
      seconds |-> (totalMilliseconds.ms % (1000 * 60)) \div 1000],
   milestone |-> milestone,
   totalMinutes |-> totalMilliseconds.days * (24 * 60)
                      + (totalMilliseconds.ms \div (1000 * 60)),
   targetDate |-> targetDateTime]

\* variant: no check of the sign of totalMilliseconds
CountdownSearched_noSignCheck(currentDate, next, result) ==
  IF result.thrown THEN Throw(result.err, next.calls + result.calls)
  ELSE IF ~result.val.defined THEN Normal(Absent, next.calls + result.calls)
  ELSE Normal(Some(CountdownInfo(next.val.milestone.val, result.val.val.sunsetTime,
                                 TimeDiff(result.val.val.sunsetTime, currentDate))),
              next.calls + result.calls)

\* calculateCountdown after result = findSunsetAfterTime(..., 365)
CountdownSearched(currentDate, next, result) ==
  IF result.thrown THEN Throw(result.err, next.calls + result.calls)
  ELSE IF ~result.val.defined THEN Normal(Absent, next.calls + result.calls)
  ELSE IF TimeDiff(result.val.val.sunsetTime, currentDate).days < 0
  THEN Normal(Absent, next.calls + result.calls)
  ELSE Normal(Some(CountdownInfo(next.val.milestone.val, result.val.val.sunsetTime,
                                 TimeDiff(result.val.val.sunsetTime, currentDate))),
              next.calls + result.calls)

\* variant: the target is searched from the day after now
CountdownAfter_fromTomorrow(location, currentDate, next) ==
  IF next.thrown THEN Throw(next.err, next.calls)
  ELSE IF ~next.val.milestone.defined \/ next.val.daysUntil < 0
  THEN Normal(Absent, next.calls)
  ELSE CountdownSearched(currentDate, next,
         findSunsetAfterTime(location, next.val.milestone.val.time,
                             addDays(currentDate, 1), SearchHorizon))

\* calculateCountdown after next = getNextMilestone(location, currentDate)
CountdownAfter(location, currentDate, next) ==
  IF next.thrown THEN Throw(next.err, next.calls)
  ELSE IF ~next.val.milestone.defined \/ next.val.daysUntil < 0
  THEN Normal(Absent, next.calls)
  ELSE CountdownSearched(currentDate, next,
         findSunsetAfterTime(location, next.val.milestone.val.time, currentDate,
                             SearchHorizon))

calculateCountdown(location, currentDate) ==
  CountdownAfter(location, currentDate, getNextMilestone(location, currentDate))

\* new Date() inside getMilestoneCalendar: only its clock fields are used
SystemNow == [day |-> 1, ms |-> 12 * MsPerHour]

\* variant: noon is not special-cased (12 renders as 0)
CalendarLabel_noNoonCase(hours, minutes) ==
  ToString(hours % 12) \o ":" \o PadStart2(minutes)
    \o " " \o (IF hours >= 12 THEN "PM" ELSE "AM")

\* `${hours === 12 ? 12 : hours % 12}:${minutes.padStart(2, '0')} ${AM|PM}`
CalendarLabel(hours, minutes) ==
  ToString(IF hours = 12 THEN 12 ELSE hours % 12) \o ":" \o PadStart2(minutes)
    \o " " \o (IF hours >= 12 THEN "PM" ELSE "AM")

\* the entry pushed for one target, after result = findSunsetAfterTime(..., 365)
CalendarEntry(timeLabel, startDate, result) ==
  IF result.val.defined
  THEN [time |-> timeLabel, date |-> Some(result.val.val.date),
        daysFromNow |-> CeilDays(TimeDiff(result.val.val.date, startDate))]
  ELSE [time |-> timeLabel, date |-> Absent, daysFromNow |-> -1]

\* the loop of getMilestoneCalendar over milestoneHours from position k;
\* a target is kept in tenths of an hour (18.5 is 185)
RECURSIVE CalendarLoop(_, _, _, _, _, _)
RECURSIVE CalendarAt(_, _, _, _, _, _, _, _, _)
RECURSIVE CalendarSearched(_, _, _, _, _, _, _, _)
CalendarLoop(location, startDate, milestoneHours, k, entries, calls) ==
  IF k > Len(milestoneHours) THEN Normal(entries, calls)
  ELSE CalendarAt(location, startDate, milestoneHours, k, entries, calls,
                  milestoneHours[k], milestoneHours[k] \div 10,
                  ((milestoneHours[k] % 10) * 60) \div 10)

\* the loop body once hours and minutes are computed
CalendarAt(location, startDate, milestoneHours, k, entries, calls, hourDecimal, hours, minutes) ==
  CalendarSearched(location, startDate, milestoneHours, k, entries, calls,
    CalendarLabel(hours, minutes),
    findSunsetAfterTime(location, setHours(SystemNow, hours, minutes), startDate,
                        SearchHorizon))

\* variant: a new entry is put in front of the entries before it
CalendarSearched_inFront(location, startDate, milestoneHours, k, entries, calls, timeLabel, result) ==
  IF result.thrown THEN Throw(result.err, calls + result.calls)
  ELSE CalendarLoop(location, startDate, milestoneHours, k + 1,
                    <<CalendarEntry(timeLabel, startDate, result)>> \o entries,
                    calls + result.calls)

\* the loop body after result = findSunsetAfterTime(..., 365)
CalendarSearched(location, startDate, milestoneHours, k, entries, calls, timeLabel, result) ==
  IF result.thrown THEN Throw(result.err, calls + result.calls)
  ELSE CalendarLoop(location, startDate, milestoneHours, k + 1,
                    Append(entries, CalendarEntry(timeLabel, startDate, result)),
                    calls + result.calls)

getMilestoneCalendar(location, startDate, milestoneHours) ==
  CalendarLoop(location, startDate, milestoneHours, 1, <<>>, 0)

(***************************************************************************)
(* GeolocationService (src/unnamed/part_000).  A Location is a record      *)
(* [latitude, longitude, name, source] with the coordinates in 1/10000 of  *)
(* a degree.  localStorage is [items, throws]: items gives the text stored *)
(* under each key (Absent when getItem returns null), throws the calls     *)
(* that throw.  A stored text is [json |-> v] for the JSON of the value v  *)
(* or [garbage |-> TRUE] for a text JSON.parse rejects; a parsed value is  *)
(* [kind |-> "object", val |-> location] or [kind |-> "array", list |->    *)
(* locations].                                                             *)
(***************************************************************************)
JSONstringify(v) == [json |-> v]

JSONparse(text) == IF "json" \in DOMAIN text THEN Normal(text.json, 0) ELSE Throw("SyntaxError", 0)

\* n.toFixed(4) of a coordinate given in 1/10000 of a degree
toFixed4(n) ==
  (IF n < 0 THEN "-" ELSE "") \o ToString(Abs(n) \div 10000) \o "."
    \o PadStart2((Abs(n) % 10000) \div 100) \o PadStart2(Abs(n) % 100)

\* the location object built by setManualLocation; an undefined or empty
\* name is falsy and gives the coordinates as the name
ManualLocation(latitude, longitude, name) ==
  [latitude |-> latitude, longitude |-> longitude,
   name |-> IF name \in {Undefined, ""}
            THEN toFixed4(latitude) \o ", " \o toFixed4(longitude) ELSE name,
   source |-> "manual"]

\* the location object built from a position by detectLocation and by the watch
DetectedLocation(coords) ==
  [latitude |-> coords.latitude, longitude |-> coords.longitude,
   source |-> "geolocation", name |-> "Current Location"]

getGeolocationErrorMessage(code) ==
  CASE code = 1 -> "Location access denied by user"
    [] code = 2 -> "Location information is unavailable"
    [] code = 3 -> "Location request timed out"
    [] OTHER -> "An unknown error occurred while retrieving location"

\* the GeolocationError handed on from the error callback of the browser
GeolocationError(code) ==
  [code |-> code, message |-> getGeolocationErrorMessage(code), fallbackRequired |-> TRUE]

\* localStorage.setItem(key, text) inside a try: a throw leaves the item as it was
setItem(ls, key, text) ==
  IF ("setItem." \o key) \in ls.throws THEN Throw("QuotaExceededError", 0)
  ELSE Normal([ls EXCEPT !.items[key] = Some(text)], 0)

\* getRecentLocations: the parsed item, or [] when there is none or reading it throws
getRecentLocations(ls) ==
  IF "getItem" \in ls.throws \/ ~ls.items.recentLocations.defined
     \/ JSONparse(ls.items.recentLocations.val).thrown
  THEN [kind |-> "array", list |-> <<>>]
  ELSE JSONparse(ls.items.recentLocations.val).val

\* the two locations are within 0.001 degrees in latitude and in longitude
SamePlace(a, b) ==
  Abs(a.latitude - b.latitude) < 10 /\ Abs(a.longitude - b.longitude) < 10

\* variant: the saved location is put in front without removing its older entry
RecentAfter_noFilter(recent, location) ==
  LET filtered == <<location>> \o recent
  IN  SubSeq(filtered, 1, IF Len(filtered) < 5 THEN Len(filtered) ELSE 5)

\* filtered.unshift(location); filtered.slice(0, 5)
RecentAfter(recent, location) ==
  LET Elsewhere(loc) == ~SamePlace(loc, location)
      filtered == <<location>> \o SelectSeq(recent, Elsewhere)
  IN  SubSeq(filtered, 1, IF Len(filtered) < 5 THEN Len(filtered) ELSE 5)

\* addToRecentLocations: recent.filter throws on a value that is not an
\* array, setItem may throw; both are caught and leave the storage as it is
addToRecentLocations(ls, location) ==
  IF getRecentLocations(ls).kind # "array" THEN ls
  ELSE IF setItem(ls, "recentLocations", ls).thrown THEN ls
  ELSE setItem(ls, "recentLocations",
               JSONstringify([kind |-> "array",
                              list |-> RecentAfter(getRecentLocations(ls).list, location)])).val

\* variant: a failing write of the current location is not caught
saveLocationToStorage_noCatch(ls, location) ==
  IF setItem(ls, "currentLocation", ls).thrown THEN Throw("QuotaExceededError", 0)
  ELSE Normal(addToRecentLocations(
                setItem(ls, "currentLocation",
                        JSONstringify([kind |-> "object", val |-> location])).val,
                location), 0)

\* saveLocationToStorage: the storage after the call; the call never throws
saveLocationToStorage(ls, location) ==
  IF setItem(ls, "currentLocation", ls).thrown THEN Normal(ls, 0)
  ELSE Normal(addToRecentLocations(
                setItem(ls, "currentLocation",
                        JSONstringify([kind |-> "object", val |-> location])).val,
                location), 0)

\* getStoredLocation: the parsed item, or null when there is none, when
\* reading it throws or when it does not parse
getStoredLocation(ls) ==
  IF "getItem" \in ls.throws \/ ~ls.items.currentLocation.defined
     \/ JSONparse(ls.items.currentLocation.val).thrown
  THEN Absent
  ELSE Some(JSONparse(ls.items.currentLocation.val).val.val)

\* the result of detectLocation: {location} or {location: null, error}
DetectionResult(location, error) == [location |-> location, error |-> error]

\* detectLocation where navigator.geolocation is missing
NotSupported ==
  DetectionResult(Absent, Some([code |-> 0, fallbackRequired |-> TRUE,
                                message |-> "Geolocation is not supported by this browser"]))

\* detectLocation once the browser has called back with outcome: a position
\* [latitude, longitude] or an error [code]
Detected(outcome) ==
  IF "code" \in DOMAIN outcome
  THEN DetectionResult(Absent, Some(GeolocationError(outcome.code)))
  ELSE DetectionResult(Some(DetectedLocation(outcome)), Absent)

\* variant: any current location counts as cached
Cached_anySource(current) == current.defined

\* the cache test at the start of getCurrentLocation
Cached(current) == current.defined /\ current.val.source = "geolocation"

\* the last return of getCurrentLocation
NoLocation(autoResult) ==
  DetectionResult(Absent,
    IF autoResult.error.defined THEN autoResult.error
    ELSE Some([code |-> 0, message |-> "No location available", fallbackRequired |-> TRUE]))

(***************************************************************************)
(* Inputs of the calls.                                                    *)
(***************************************************************************)
Loc(lat, lon) == [latitude |-> lat, longitude |-> lon]

Seattle == Loc(476, -1223)

ArcticEdge == Loc(665, 0)

Alaska == Loc(700, -1500)

Antarctic == Loc(-700, 0)

InvalidBoth == Loc(9990, 9990)

InvalidLongitude == Loc(476, 9990)

Locations == {Seattle, ArcticEdge, Alaska, Antarctic, InvalidBoth, InvalidLongitude}

SearchLocations == {Seattle, Alaska, InvalidBoth}

At(day, ms) == [day |-> day, ms |-> ms]

\* days around the edges of the two season windows and around the new year
QueryDays == {50, 51, 149, 150, 200, 201, 339, 340, 366, 367}

QueryDates == { At(d, t) : d \in QueryDays, t \in {0, 18 * MsPerHour + 30 * MsPerSecond} }

StartDates == {At(50, 0), At(365, 18 * MsPerHour + 30 * MsPerSecond)}

\* 18:00:00.000, 18:00:59.999 on another date, 18:30 and 23:00
TargetTimes ==
  {At(1, 18 * MsPerHour), At(9, 18 * MsPerHour + MsPerMinute - 1),
   At(1, 18 * MsPerHour + 30 * MsPerMinute), At(1, 23 * MsPerHour)}

DayCounts == 0 .. MaxDaysBound

MilestoneCounts == {0, 2}

CalendarTargets == {<<>>, <<170, 180, 185>>, <<185, 170, 230>>}

\* the last millisecond of a day: a sunset that reaches every boundary up to 23:30
LateSunset == MsPerDay - 1

\* the library returns local Date values: a sunset may fall on any minute of
\* the day of the host's time zone; three values carry seconds and milliseconds
LadderSunsets ==
  { m * MsPerMinute : m \in 0 .. 24 * 60 - 1 }
  \cup { 18 * MsPerHour + 30 * MsPerMinute - 1, 21 * MsPerHour - 1, LateSunset }

\* the library answers the days that are multiples of Window with the sunset
\* time-of-day today and every other day with later
LadderOracle(today, later) ==
  [d \in 0 .. Window - 1 |->
     [sunset |-> OracleValue(IF d = 0 THEN today ELSE later),
      sunrise |-> OracleValue(SunriseMs)]]

\* the sunset of the other days reaches every boundary, or none after 21:00
LadderOracles ==
  { LadderOracle(t, LateSunset) : t \in LadderSunsets }
  \cup { LadderOracle(t, 21 * MsPerHour + 10 * MsPerMinute) :
           t \in { 20 * MsPerHour + 15 * MsPerMinute,
                   20 * MsPerHour + 45 * MsPerMinute,
                   21 * MsPerHour + 20 * MsPerMinute } }

\* now on a day the library answers with today: midnight, 18:00:30, 23:45 and 23:50
LadderDates ==
  { At(366, 0), At(366, 18 * MsPerHour + 30 * MsPerSecond),
    At(366, 23 * MsPerHour + 45 * MsPerMinute),
    At(366, 23 * MsPerHour + 50 * MsPerMinute) }

LadderCounts == {3}

\* the sunset answers of one day for the calendar: a sunset at 17:00, one
\* millisecond before 18:30, at 21:30 and at the end of the day, no value,
\* and a throw
CalendarOutcomes ==
  { [sunset |-> OracleValue(t), sunrise |-> OracleValue(SunriseMs)] :
      t \in {17 * MsPerHour, 18 * MsPerHour + 30 * MsPerMinute - 1,
             21 * MsPerHour + 30 * MsPerMinute, LateSunset} }
  \cup { [sunset |-> OracleAbsent, sunrise |-> OracleValue(SunriseMs)],
         [sunset |-> OracleThrow, sunrise |-> OracleValue(SunriseMs)] }

\* one answer for the days that are multiples of Window, one for the others
CalendarOracles ==
  { [d \in 0 .. Window - 1 |-> IF d = 0 THEN a ELSE b] : a, b \in CalendarOutcomes }

\* twelve consecutive half hours in ascending order: part 0 starts at 0:00,
\* part 3 ends at 23:30
HalfHours(part) == [n \in 1 .. 12 |-> 5 * (12 * part + n - 1)]

\* every half hour of the day, the targets of the tests (17, 18, 19 and
\* 23, 24, 1), and ascending targets that end at 24
CalendarProbes ==
  { HalfHours(part) : part \in 0 .. 3 }
  \cup {<<170, 180, 190>>, <<230, 240, 10>>, <<125, 215, 235, 240>>}

(***************************************************************************)
(* The state machine: one call of the core at a time.  The two loops of    *)
(* sunset-calculator.ts run one iteration per step; the operations of      *)
(* milestone-calculator.ts are single steps.                               *)
(***************************************************************************)
NoCall == [op |-> "none"]

NoReturn == [kind |-> "none"]

\* no application object yet
NoApp == [constructed |-> FALSE, currentLocation |-> Absent, updateInterval |-> Absent]

\* a window without timers, and the page as it is loaded
NoWindow ==
  [intervals |-> {}, nextId |-> 1,
   dom |-> [location |-> Absent, countdown |-> Absent, error |-> Absent,
            locationError |-> Absent]]

\* the service before its first call, in a browser with geolocation and an
\* empty working localStorage; no application object
GeoIdle ==
  /\ currentLocation = Absent
  /\ watchId = Absent
  /\ navigator = [geolocation |-> TRUE, watches |-> {}, nextWatchId |-> 1]
  /\ localStorage = [items |-> [currentLocation |-> Absent, recentLocations |-> Absent],
                     throws |-> {}]
  /\ pending = <<>>
  /\ geoRet = NoCall
  /\ app = NoApp
  /\ window = NoWindow

Returned(c) ==
  IF c.thrown THEN [kind |-> "thrown", err |-> c.err] ELSE [kind |-> "value", val |-> c.val]

\* what the caller gets from a call that returns an array
ReturnedList(c) ==
  IF c.thrown THEN [kind |-> "thrown", err |-> c.err] ELSE [kind |-> "list", list |-> c.val]

Init ==
  /\ oracle \in Oracles
  /\ pc = "idle"
  /\ call = NoCall
  /\ i = 0
  /\ results = <<>>
  /\ ret = NoReturn
  /\ oracleCalls = 0
  /\ GeoIdle

\* a call that runs to completion in one step
Complete(c) ==
  /\ pc' = "done"
  /\ ret' = Returned(c)
  /\ oracleCalls' = c.calls
  /\ UNCHANGED <<geoVars, appVars, oracle, i, results>>

\* a call returning an array that runs to completion in one step
CompleteList(c) ==
  /\ pc' = "done"
  /\ ret' = ReturnedList(c)
  /\ oracleCalls' = c.calls
  /\ UNCHANGED <<geoVars, appVars, oracle, i, results>>

CallCalculateSunsetInfo ==
  /\ pc = "idle"
  /\ \E location \in Locations, date \in QueryDates :
       /\ call' = [op |-> "calculateSunsetInfo", location |-> location, date |-> date]
       /\ Complete(calculateSunsetInfo(oracle, location, date))

StartProgression ==
  /\ pc = "idle"
  /\ \E location \in SearchLocations, startDate \in StartDates, days \in DayCounts :
       call' = [op |-> "calculateSunsetProgression", location |-> location,
                startDate |-> startDate, days |-> days]
  /\ pc' = "progression"
  /\ i' = 0
  /\ results' = <<>>
  /\ oracleCalls' = 0
  /\ UNCHANGED <<geoVars, appVars, oracle, ret>>

\* variant: the loop runs while i <= days
ProgressionStep_oneMore ==
  /\ pc = "progression"
  /\ i <= call.days
  /\ LET date == addDays(call.startDate, i)
         c == calculateSunsetInfo(oracle, call.location, date)
     IN  /\ oracleCalls' = oracleCalls + c.calls
         /\ IF c.thrown
            THEN /\ pc' = "done"
                 /\ ret' = Returned(c)
                 /\ UNCHANGED <<i, results>>
            ELSE /\ results' = Append(results, c.val)
                 /\ i' = i + 1
                 /\ UNCHANGED <<pc, ret>>
  /\ UNCHANGED <<geoVars, appVars, oracle, call>>

\* variant: the day is advanced on startDate itself, not on a copy of it
ProgressionStep_inPlace ==
  /\ pc = "progression"
  /\ i < call.days
  /\ LET date == addDays(call.startDate, i)
         c == calculateSunsetInfo(oracle, call.location, date)
     IN  /\ oracleCalls' = oracleCalls + c.calls
         /\ call' = [call EXCEPT !.startDate = date]
         /\ IF c.thrown
            THEN /\ pc' = "done"
                 /\ ret' = Returned(c)
                 /\ UNCHANGED <<i, results>>
            ELSE /\ results' = Append(results, c.val)
                 /\ i' = i + 1
                 /\ UNCHANGED <<pc, ret>>
  /\ UNCHANGED <<geoVars, appVars, oracle>>

\* for (let i = 0; i < days; i++) { results.push(calculateSunsetInfo(...)) }
ProgressionStep ==
  /\ pc = "progression"
  /\ i < call.days
  /\ LET date == addDays(call.startDate, i)
         c == calculateSunsetInfo(oracle, call.location, date)
     IN  /\ oracleCalls' = oracleCalls + c.calls
         /\ IF c.thrown
            THEN /\ pc' = "done"
                 /\ ret' = Returned(c)
                 /\ UNCHANGED <<i, results>>
            ELSE /\ results' = Append(results, c.val)
                 /\ i' = i + 1
                 /\ UNCHANGED <<pc, ret>>
  /\ UNCHANGED <<geoVars, appVars, oracle, call>>

ProgressionReturn ==
  /\ pc = "progression"
  /\ ~(i < call.days)
  /\ pc' = "done"
  /\ ret' = [kind |-> "list", list |-> results]
  /\ UNCHANGED <<geoVars, appVars, oracle, call, i, results, oracleCalls>>

StartFind ==
  /\ pc = "idle"
  /\ \E location \in SearchLocations, targetTime \in TargetTimes,
        startDate \in StartDates, maxDays \in DayCounts :
       call' = [op |-> "findSunsetAfterTime", location |-> location,
                targetTime |-> targetTime, startDate |-> startDate,
                maxDays |-> maxDays]
  /\ pc' = "find"
  /\ i' = 0
  /\ oracleCalls' = 0
  /\ UNCHANGED <<geoVars, appVars, oracle, results, ret>>

\* variant: the loop runs while i <= maxDays
FindStep_oneMore ==
  /\ pc = "find"
  /\ i <= call.maxDays
  /\ LET b == FindBody(call.location, call.targetTime, call.startDate, i)
     IN  /\ oracleCalls' = oracleCalls + b.calls
         /\ IF b.thrown
            THEN /\ pc' = "done"
                 /\ ret' = Returned(b)
                 /\ UNCHANGED i
            ELSE IF b.val.returned
            THEN /\ pc' = "done"
                 /\ ret' = [kind |-> "value", val |-> b.val.val]
                 /\ UNCHANGED i
            ELSE /\ i' = i + 1
                 /\ UNCHANGED <<pc, ret>>
  /\ UNCHANGED <<geoVars, appVars, oracle, call, results>>

\* one iteration of the loop of findSunsetAfterTime
FindStep ==
  /\ pc = "find"
  /\ i < call.maxDays
  /\ LET b == FindBody(call.location, call.targetTime, call.startDate, i)
     IN  /\ oracleCalls' = oracleCalls + b.calls
         /\ IF b.thrown
            THEN /\ pc' = "done"
                 /\ ret' = Returned(b)
                 /\ UNCHANGED i
            ELSE IF b.val.returned
            THEN /\ pc' = "done"
                 /\ ret' = [kind |-> "value", val |-> b.val.val]
                 /\ UNCHANGED i
            ELSE /\ i' = i + 1
                 /\ UNCHANGED <<pc, ret>>
  /\ UNCHANGED <<geoVars, appVars, oracle, call, results>>

\* return null
FindReturn ==
  /\ pc = "find"
  /\ ~(i < call.maxDays)
  /\ pc' = "done"
  /\ ret' = [kind |-> "value", val |-> Absent]
  /\ UNCHANGED <<geoVars, appVars, oracle, call, i, results, oracleCalls>>

CallGetNextMilestone ==
  /\ pc = "idle"
  /\ \E location \in SearchLocations, currentDate \in StartDates :
       /\ call' = [op |-> "getNextMilestone", location |-> location,
                   currentDate |-> currentDate]
       /\ Complete(getNextMilestone(location, currentDate))

CallGetUpcomingMilestones ==
  /\ pc = "idle"
  /\ \E location \in SearchLocations, currentDate \in StartDates,
        count \in MilestoneCounts :
       /\ call' = [op |-> "getUpcomingMilestones", location |-> location,
                   currentDate |-> currentDate, count |-> count]
       /\ CompleteList(getUpcomingMilestones(location, currentDate, count))

CallCalculateCountdown ==
  /\ pc = "idle"
  /\ \E location \in SearchLocations, currentDate \in StartDates :
       /\ call' = [op |-> "calculateCountdown", location |-> location,
                   currentDate |-> currentDate]
       /\ Complete(calculateCountdown(location, currentDate))

CallGetMilestoneCalendar ==
  /\ pc = "idle"
  /\ \E location \in SearchLocations, startDate \in StartDates,
        milestoneHours \in CalendarTargets :
       /\ call' = [op |-> "getMilestoneCalendar", location |-> location,
                   startDate |-> startDate, milestoneHours |-> milestoneHours]
       /\ CompleteList(getMilestoneCalendar(location, startDate, milestoneHours))

\* the caller takes the result; the core keeps nothing between calls
Return ==
  /\ pc = "done"
  /\ pc' = "idle"
  /\ call' = NoCall
  /\ i' = 0
  /\ results' = <<>>
  /\ ret' = NoReturn
  /\ oracleCalls' = 0
  /\ UNCHANGED <<geoVars, appVars, oracle>>

Next ==
  \/ CallCalculateSunsetInfo
  \/ StartProgression
  \/ ProgressionStep
  \/ ProgressionReturn
  \/ StartFind
  \/ FindStep
  \/ FindReturn
  \/ CallGetNextMilestone
  \/ CallGetUpcomingMilestones
  \/ CallCalculateCountdown
  \/ CallGetMilestoneCalendar
  \/ Return

Spec == Init /\ [][Next]_vars

TypeOK ==
  /\ oracle \in Oracles
  /\ pc \in {"idle", "progression", "find", "done"}
  /\ i \in 0 .. MaxDaysBound
  /\ Len(results) <= MaxDaysBound
  /\ oracleCalls \in Nat

\* the loops of sunset-calculator.ts are synchronous: an enabled iteration runs
FairSpec == Spec /\ WF_vars(FindStep) /\ WF_vars(FindReturn)

(***************************************************************************)
(* The operations of milestone-calculator.ts over every sunset minute of   *)
(* the day: the same calls, with the library drawn from LadderOracles.     *)
(***************************************************************************)
LadderInit ==
  /\ oracle \in LadderOracles
  /\ pc = "idle"
  /\ call = NoCall
  /\ i = 0
  /\ results = <<>>
  /\ ret = NoReturn
  /\ oracleCalls = 0
  /\ GeoIdle

LadderNextMilestone ==
  /\ pc = "idle"
  /\ \E currentDate \in LadderDates :
       /\ call' = [op |-> "getNextMilestone", location |-> Seattle,
                   currentDate |-> currentDate]
       /\ Complete(getNextMilestone(Seattle, currentDate))

LadderUpcomingMilestones ==
  /\ pc = "idle"
  /\ \E currentDate \in LadderDates, count \in LadderCounts :
       /\ call' = [op |-> "getUpcomingMilestones", location |-> Seattle,
                   currentDate |-> currentDate, count |-> count]
       /\ CompleteList(getUpcomingMilestones(Seattle, currentDate, count))

LadderCountdown ==
  /\ pc = "idle"
  /\ \E currentDate \in LadderDates :
       /\ call' = [op |-> "calculateCountdown", location |-> Seattle,
                   currentDate |-> currentDate]
       /\ Complete(calculateCountdown(Seattle, currentDate))

LadderNext ==
  \/ LadderNextMilestone
  \/ LadderUpcomingMilestones
  \/ LadderCountdown
  \/ Return

LadderSpec == LadderInit /\ [][LadderNext]_vars

(***************************************************************************)
(* getMilestoneCalendar over every half hour of the day, with the library  *)
(* drawn from CalendarOracles.                                             *)
(***************************************************************************)
CalendarInit ==
  /\ oracle \in CalendarOracles
  /\ pc = "idle"
  /\ call = NoCall
  /\ i = 0
  /\ results = <<>>
  /\ ret = NoReturn
  /\ oracleCalls = 0
  /\ GeoIdle

CalendarCall ==
  /\ pc = "idle"
  /\ \E startDate \in {At(366, 0), At(367, 18 * MsPerHour + 30 * MsPerSecond)},
        milestoneHours \in CalendarProbes :
       /\ call' = [op |-> "getMilestoneCalendar", location |-> Seattle,
                   startDate |-> startDate, milestoneHours |-> milestoneHours]
       /\ CompleteList(getMilestoneCalendar(Seattle, startDate, milestoneHours))

CalendarNext == CalendarCall \/ Return

CalendarSpec == CalendarInit /\ [][CalendarNext]_vars

(***************************************************************************)
(* The location service.  Its synchronous methods are single steps; a      *)
(* getCurrentLocation that has to ask the browser waits in pending until   *)
(* the browser calls back, and other calls may run in between.  Every step *)
(* leaves in geoRet the call it completed and what the call returned.      *)
(***************************************************************************)
\* setManualLocation(47.6062, -122.3321, 'Seattle, WA') and a call without a name
ManualInputs == {<<476062, -1223321, "Seattle, WA">>, <<407128, -740060, Undefined>>}

\* what the browser hands to the callbacks: a position (47.6062, -122.3321
\* or 40.7128, -74.0060), or an error with its code
BrowserOutcomes ==
  { [latitude |-> 476062, longitude |-> -1223321], [latitude |-> 407128, longitude |-> -740060] }
  \cup { [code |-> c] : c \in 1 .. 3 }

\* the calls of localStorage that throw: none, the larger write only, every
\* write, every read, every call
StorageFailures ==
  { {}, {"setItem.recentLocations"}, {"setItem.currentLocation", "setItem.recentLocations"},
    {"getItem"},
    {"getItem", "removeItem", "setItem.currentLocation", "setItem.recentLocations"} }

\* what an earlier session left in localStorage under the two keys: nothing,
\* a text that does not parse, or the JSON of the location 'Stored Seattle'
InitialItems ==
  { [currentLocation |-> c, recentLocations |-> r] :
      c, r \in {Absent, Some([garbage |-> TRUE]),
                Some(JSONstringify([kind |-> "object",
                       val |-> ManualLocation(476062, -1223321, "Stored Seattle")]))} }

GeoInit ==
  /\ oracle = LadderOracle(LateSunset, LateSunset)
  /\ pc = "idle"
  /\ call = NoCall
  /\ i = 0
  /\ results = <<>>
  /\ ret = NoReturn
  /\ oracleCalls = 0
  /\ currentLocation = Absent
  /\ watchId = Absent
  /\ navigator \in { [geolocation |-> g, watches |-> {}, nextWatchId |-> 1] : g \in BOOLEAN }
  /\ localStorage \in { [items |-> it, throws |-> t] : it \in InitialItems, t \in StorageFailures }
  /\ pending = <<>>
  /\ geoRet = NoCall
  /\ app = NoApp
  /\ window = NoWindow

\* variant: a stored location is preferred to a detected one
AfterDetection_storedFirst(autoResult) ==
  /\ IF getStoredLocation(localStorage).defined
     THEN /\ currentLocation' = getStoredLocation(localStorage)
          /\ geoRet' = [op |-> "getCurrentLocation", auto |-> autoResult,
                        thrown |-> FALSE,
                        val |-> DetectionResult(getStoredLocation(localStorage), Absent)]
          /\ UNCHANGED localStorage
     ELSE IF autoResult.location.defined
     THEN /\ currentLocation' = autoResult.location
          /\ localStorage' = saveLocationToStorage(localStorage, autoResult.location.val).val
          /\ geoRet' = [op |-> "getCurrentLocation", auto |-> autoResult,
                        thrown |-> FALSE, val |-> autoResult]
     ELSE /\ geoRet' = [op |-> "getCurrentLocation", auto |-> autoResult,
                        thrown |-> FALSE, val |-> NoLocation(autoResult)]
          /\ UNCHANGED <<currentLocation, localStorage>>
  /\ UNCHANGED <<coreVars, appVars, watchId, navigator>>

\* getCurrentLocation from the detection result on
AfterDetection(autoResult) ==
  /\ IF autoResult.location.defined
     THEN /\ currentLocation' = autoResult.location
          /\ localStorage' = IF saveLocationToStorage(localStorage, autoResult.location.val).thrown
                             THEN localStorage
                             ELSE saveLocationToStorage(localStorage, autoResult.location.val).val
          /\ geoRet' = [op |-> "getCurrentLocation", auto |-> autoResult,
                        thrown |-> saveLocationToStorage(localStorage, autoResult.location.val).thrown,
                        val |-> autoResult]
     ELSE IF getStoredLocation(localStorage).defined
     THEN /\ currentLocation' = getStoredLocation(localStorage)
          /\ geoRet' = [op |-> "getCurrentLocation", auto |-> autoResult,
                        thrown |-> FALSE,
                        val |-> DetectionResult(getStoredLocation(localStorage), Absent)]
          /\ UNCHANGED localStorage
     ELSE /\ geoRet' = [op |-> "getCurrentLocation", auto |-> autoResult,
                        thrown |-> FALSE, val |-> NoLocation(autoResult)]
          /\ UNCHANGED <<currentLocation, localStorage>>
  /\ UNCHANGED <<coreVars, appVars, watchId, navigator>>

\* the call of getCurrentLocation up to its await
GetCurrentLocation ==
  IF Cached(currentLocation)
  THEN /\ geoRet' = [op |-> "getCurrentLocation",
                     auto |-> DetectionResult(Absent, Absent), thrown |-> FALSE,
                     val |-> DetectionResult(currentLocation, Absent)]
       /\ UNCHANGED <<coreVars, appVars, currentLocation, watchId, navigator, localStorage, pending>>
  ELSE IF ~navigator.geolocation
  THEN AfterDetection(NotSupported) /\ UNCHANGED pending
  ELSE /\ Len(pending) < MaxPending
       /\ pending' = Append(pending, [op |-> "getCurrentLocation"])
       /\ geoRet' = [op |-> "await"]
       /\ UNCHANGED <<coreVars, appVars, currentLocation, watchId, navigator, localStorage>>

\* the browser answers one getCurrentPosition request
DetectionCallback ==
  \E k \in DOMAIN pending, outcome \in BrowserOutcomes :
    /\ pending' = SubSeq(pending, 1, k - 1) \o SubSeq(pending, k + 1, Len(pending))
    /\ AfterDetection(Detected(outcome))

\* setManualLocation(input[1], input[2], input[3])
SetManualLocationOf(input) ==
  /\ currentLocation' = Some(ManualLocation(input[1], input[2], input[3]))
  /\ localStorage' =
       IF saveLocationToStorage(localStorage, ManualLocation(input[1], input[2], input[3])).thrown
       THEN localStorage
       ELSE saveLocationToStorage(localStorage, ManualLocation(input[1], input[2], input[3])).val
  /\ geoRet' = [op |-> "setManualLocation",
                thrown |-> saveLocationToStorage(localStorage,
                             ManualLocation(input[1], input[2], input[3])).thrown,
                val |-> ManualLocation(input[1], input[2], input[3])]
  /\ UNCHANGED <<coreVars, appVars, watchId, navigator, pending>>

SetManualLocation == \E input \in ManualInputs : SetManualLocationOf(input)

\* variant: a start while a watch is active registers another watch
StartWatchingLocation_again ==
  IF ~navigator.geolocation
  THEN /\ geoRet' = [op |-> "startWatchingLocation", registered |-> Absent]
       /\ UNCHANGED <<coreVars, appVars, currentLocation, watchId, navigator, localStorage, pending>>
  ELSE /\ navigator.nextWatchId <= MaxWatchId
       /\ navigator' = [navigator EXCEPT !.watches = @ \cup {navigator.nextWatchId},
                                         !.nextWatchId = @ + 1]
       /\ watchId' = Some(navigator.nextWatchId)
       /\ geoRet' = [op |-> "startWatchingLocation", registered |-> Some(navigator.nextWatchId)]
       /\ UNCHANGED <<coreVars, appVars, currentLocation, localStorage, pending>>

\* watchPosition returns the id of the watch it registers
StartWatchingLocation ==
  IF ~navigator.geolocation \/ watchId.defined
  THEN /\ geoRet' = [op |-> "startWatchingLocation", registered |-> Absent]
       /\ UNCHANGED <<coreVars, appVars, currentLocation, watchId, navigator, localStorage, pending>>
  ELSE /\ navigator.nextWatchId <= MaxWatchId
       /\ navigator' = [navigator EXCEPT !.watches = @ \cup {navigator.nextWatchId},
                                         !.nextWatchId = @ + 1]
       /\ watchId' = Some(navigator.nextWatchId)
       /\ geoRet' = [op |-> "startWatchingLocation", registered |-> Some(navigator.nextWatchId)]
       /\ UNCHANGED <<coreVars, appVars, currentLocation, localStorage, pending>>

StopWatchingLocation ==
  IF watchId.defined /\ navigator.geolocation
  THEN /\ navigator' = [navigator EXCEPT !.watches = @ \ {watchId.val}]
       /\ watchId' = Absent
       /\ geoRet' = [op |-> "stopWatchingLocation", cleared |-> watchId]
       /\ UNCHANGED <<coreVars, appVars, currentLocation, localStorage, pending>>
  ELSE /\ geoRet' = [op |-> "stopWatchingLocation", cleared |-> Absent]
       /\ UNCHANGED <<coreVars, appVars, currentLocation, watchId, navigator, localStorage, pending>>

\* the browser calls one of the two callbacks of an active watch
WatchCallback ==
  /\ navigator.watches # {}
  /\ \E outcome \in BrowserOutcomes :
       IF Detected(outcome).location.defined
       THEN /\ currentLocation' = Detected(outcome).location
            /\ localStorage' =
                 IF saveLocationToStorage(localStorage, DetectedLocation(outcome)).thrown
                 THEN localStorage
                 ELSE saveLocationToStorage(localStorage, DetectedLocation(outcome)).val
            /\ geoRet' = [op |-> "watch", val |-> Detected(outcome),
                          thrown |-> saveLocationToStorage(localStorage,
                                                           DetectedLocation(outcome)).thrown]
       ELSE /\ geoRet' = [op |-> "watch", val |-> Detected(outcome), thrown |-> FALSE]
            /\ UNCHANGED <<currentLocation, localStorage>>
  /\ UNCHANGED <<coreVars, appVars, watchId, navigator, pending>>

\* clearLocationData: a throwing removeItem is caught and leaves everything as it is
ClearLocationData ==
  /\ IF "removeItem" \in localStorage.throws
     THEN UNCHANGED <<currentLocation, localStorage>>
     ELSE /\ localStorage' = [localStorage EXCEPT !.items =
                                [currentLocation |-> Absent, recentLocations |-> Absent]]
          /\ currentLocation' = Absent
  /\ geoRet' = [op |-> "clearLocationData"]
  /\ UNCHANGED <<coreVars, appVars, watchId, navigator, pending>>

\* the browser: localStorage starts or stops throwing
StorageChanges ==
  /\ \E t \in StorageFailures \ {localStorage.throws} :
       localStorage' = [localStorage EXCEPT !.throws = t]
  /\ geoRet' = NoCall
  /\ UNCHANGED <<coreVars, appVars, currentLocation, watchId, navigator, pending>>

GeoNext ==
  \/ GetCurrentLocation
  \/ DetectionCallback
  \/ SetManualLocation
  \/ StartWatchingLocation
  \/ StopWatchingLocation
  \/ WatchCallback
  \/ ClearLocationData
  \/ StorageChanges

GeoSpec == GeoInit /\ [][GeoNext]_vars

(***************************************************************************)
(* The recent-locations list under a longer series of saves: seven places, *)
(* three of them in a row 0.0005 and 0.0008 degrees apart in latitude (the *)
(* outer two 0.0013 apart), one that differs from the first in longitude   *)
(* only, and three far away.  No two coordinates differ by exactly 0.001,  *)
(* where the rounding of the floating-point subtraction would decide.      *)
(***************************************************************************)
RecentPlaces ==
  { <<476062, -1223321>>, <<476067, -1223321>>, <<476075, -1223321>>, <<476062, -1223000>>,
    <<407128, -740060>>, <<515074, -1278>>, <<356762, 1396503>> }

\* a list of five places an earlier session stored, most recent first
FullRecentList ==
  << ManualLocation(356762, 1396503, Undefined), ManualLocation(515074, -1278, Undefined),
     ManualLocation(407128, -740060, Undefined), ManualLocation(476062, -1223000, Undefined),
     ManualLocation(476075, -1223321, Undefined) >>

RecentsInit ==
  /\ oracle = LadderOracle(LateSunset, LateSunset)
  /\ pc = "idle"
  /\ call = NoCall
  /\ i = 0
  /\ results = <<>>
  /\ ret = NoReturn
  /\ oracleCalls = 0
  /\ currentLocation = Absent
  /\ watchId = Absent
  /\ navigator = [geolocation |-> TRUE, watches |-> {}, nextWatchId |-> 1]
  /\ localStorage \in
       { [items |-> [currentLocation |-> Absent, recentLocations |-> r], throws |-> t] :
           r \in {Absent, Some(JSONstringify([kind |-> "array", list |-> FullRecentList]))},
           t \in StorageFailures }
  /\ pending = <<>>
  /\ geoRet = NoCall
  /\ app = NoApp
  /\ window = NoWindow

\* setManualLocation(latitude, longitude) for one of the places
SetRecentPlace == \E place \in RecentPlaces : SetManualLocationOf(<<place[1], place[2], Undefined>>)

RecentsNext ==
  \/ SetRecentPlace
  \/ GetCurrentLocation
  \/ DetectionCallback

RecentsSpec == RecentsInit /\ [][RecentsNext]_vars

(***************************************************************************)
(* main.ts: SunsetCountdownApp.  The texts of the form fields are          *)
(* sequences of characters.  A JavaScript number is NaN or a value, kept   *)
(* in 1/10000 of a degree as the coordinates of the location service are.  *)
(***************************************************************************)
NaN == [nan |-> TRUE, val |-> 0]

Number(n) == [nan |-> FALSE, val |-> n]

Digits == <<"0", "1", "2", "3", "4", "5", "6", "7", "8", "9">>

IsDigit(c) == \E d \in DOMAIN Digits : Digits[d] = c

DigitValue(c) == (CHOOSE d \in DOMAIN Digits : Digits[d] = c) - 1

\* the longest prefix of s made of digits
RECURSIVE LeadingDigits(_)
LeadingDigits(s) ==
  IF s # <<>> /\ IsDigit(Head(s)) THEN <<Head(s)>> \o LeadingDigits(Tail(s)) ELSE <<>>

\* the value of a sequence of digits read as a whole number
RECURSIVE WholeValue(_)
WholeValue(s) ==
  IF s = <<>> THEN 0 ELSE WholeValue(SubSeq(s, 1, Len(s) - 1)) * 10 + DigitValue(s[Len(s)])

\* the value of the digits after the point, in 1/10000 (the texts of the
\* model have at most four of them)
FractionValue(s) ==
  WholeValue(SubSeq(s \o <<"0", "0", "0", "0">>, 1, 4))

RECURSIVE TrimStart(_)
TrimStart(s) == IF s # <<>> /\ Head(s) = " " THEN TrimStart(Tail(s)) ELSE s

\* parseFloat: leading white space is skipped, then an optional sign, digits
\* and a fraction are read; what follows them is ignored; NaN when no digit
\* is read (the texts of the model have no exponent and are not 'Infinity')
parseFloat(text) ==
  LET t == TrimStart(text)
      signed == t # <<>> /\ Head(t) \in {"-", "+"}
      u == IF signed THEN Tail(t) ELSE t
      whole == LeadingDigits(u)
      rest == SubSeq(u, Len(whole) + 1, Len(u))
      fraction == IF rest # <<>> /\ Head(rest) = "." THEN LeadingDigits(Tail(rest)) ELSE <<>>
  IN  IF whole = <<>> /\ fraction = <<>> THEN NaN
      ELSE Number((IF signed /\ Head(t) = "-" THEN -1 ELSE 1)
                    * (WholeValue(whole) * 10000 + FractionValue(fraction)))

\* variant: the bounds are exclusive
isValidLocation_exclusive(latitude, longitude) ==
  /\ ~latitude.nan /\ ~longitude.nan
  /\ latitude.val > -900000 /\ latitude.val < 900000
  /\ longitude.val > -1800000 /\ longitude.val < 1800000

\* isValidLocation: a comparison with NaN is false
isValidLocation(latitude, longitude) ==
  /\ ~latitude.nan /\ ~longitude.nan
  /\ latitude.val >= -900000 /\ latitude.val <= 900000
  /\ longitude.val >= -1800000 /\ longitude.val <= 1800000

getDefaultLocation ==
  [latitude |-> 476062, longitude |-> -1223321, name |-> "Seattle, WA (Default)",
   source |-> "manual"]

\* getCurrentLocation from the detection result on, as values: the current
\* location of the service, the storage and the value returned
ResolveLocation(current, ls, autoResult) ==
  IF autoResult.location.defined
  THEN [current |-> autoResult.location,
        storage |-> saveLocationToStorage(ls, autoResult.location.val).val,
        val |-> autoResult]
  ELSE IF getStoredLocation(ls).defined
  THEN [current |-> getStoredLocation(ls), storage |-> ls,
        val |-> DetectionResult(getStoredLocation(ls), Absent)]
  ELSE [current |-> current, storage |-> ls, val |-> NoLocation(autoResult)]

\* the location as the calculators read it: they look at the latitude only,
\* to compare it with 66.5 degrees
CoreLocation(location) == Loc(location.latitude \div 1000, location.longitude \div 1000)

\* showError: the message is put into #error-message and displayed
showError(dom, message) == [dom EXCEPT !.error = Some(message)]

showLocationError(dom, message) == [dom EXCEPT !.locationError = Some(message)]

\* updateCountdownDisplay when calculateCountdown gave a countdown
CountdownShown(dom, countdown) ==
  IF ~countdown.thrown /\ countdown.val.defined
  THEN [dom EXCEPT !.countdown = Some([label |-> countdown.val.val.milestone.label,
                                       seconds |-> countdown.val.val.timeRemaining.seconds])]
  ELSE dom

\* updateDisplay for the current location of the application, at now
updateDisplay(dom, current, now) ==
  IF ~current.defined THEN dom
  ELSE IF calculateCountdown(CoreLocation(current.val), now).thrown
  THEN showError([dom EXCEPT !.location = Some(current.val.name)],
                 "Failed to update sunset information")
  ELSE IF calculateCountdown(CoreLocation(current.val), now).val.defined
  THEN CountdownShown([dom EXCEPT !.location = Some(current.val.name)],
                      calculateCountdown(CoreLocation(current.val), now))
  ELSE showError([dom EXCEPT !.location = Some(current.val.name)],
                 "Unable to calculate sunset milestones for this location")

\* startUpdateLoop: two intervals are set, the id of the first one is kept
startUpdateLoop(w) ==
  [w EXCEPT !.intervals = @ \cup {[id |-> w.nextId, every |-> 1000],
                                  [id |-> w.nextId + 1, every |-> 300000]},
            !.nextId = @ + 2]

\* stopUpdateLoop: clearInterval(this.updateInterval)
stopUpdateLoop(w, updateInterval) ==
  IF updateInterval.defined
  THEN [w EXCEPT !.intervals = {t \in @ : t.id # updateInterval.val}]
  ELSE w

(***************************************************************************)
(* The application in the browser.  The constructor runs init up to its    *)
(* first await; a handler of an event runs to its end, up to an await of a *)
(* detection that is still in flight, and what follows the await runs when *)
(* the browser answers.  Each action leaves in geoRet the handler it ran.  *)
(***************************************************************************)
\* the fields of the location form as submitted: Seattle with a name, the
\* four bounds, a value 0.0001 degrees past each bound, texts without a
\* number, and a number followed by letters
FormInputs ==
  { [latitude |-> <<"4", "7", ".", "6", "0", "6", "2">>,
     longitude |-> <<"-", "1", "2", "2", ".", "3", "3", "2", "1">>, name |-> "Seattle, WA"],
    [latitude |-> <<"9", "0">>, longitude |-> <<"-", "1", "8", "0">>, name |-> ""],
    [latitude |-> <<"-", "9", "0">>, longitude |-> <<"1", "8", "0">>, name |-> ""],
    [latitude |-> <<"9", "0", ".", "0", "0", "0", "1">>, longitude |-> <<"0">>, name |-> ""],
    [latitude |-> <<"-", "9", "0", ".", "0", "0", "0", "1">>, longitude |-> <<"0">>, name |-> ""],
    [latitude |-> <<"0">>, longitude |-> <<"1", "8", "0", ".", "0", "0", "0", "1">>, name |-> ""],
    [latitude |-> <<"0">>, longitude |-> <<"-", "1", "8", "0", ".", "0", "0", "0", "1">>,
     name |-> ""],
    [latitude |-> <<"a", "b", "c">>, longitude |-> <<"1", "0">>, name |-> ""],
    [latitude |-> <<>>, longitude |-> <<>>, name |-> ""],
    [latitude |-> <<"4", "7", ".", "6", "0", "6", "2", "a", "b", "c">>,
     longitude |-> <<"-", "1", "2", "2", ".", "3", "3", "2", "1">>, name |-> "Seattle, WA"] }

\* a result of searchLocation the user clicks on
SearchResults ==
  { [latitude |-> 476062, longitude |-> -1223321, name |-> "Seattle, WA", source |-> "search"] }

\* what the browser answers to a detection of the application: the position
\* 47.6062, -122.3321 or a refusal
AppOutcomes == { [latitude |-> 476062, longitude |-> -1223321], [code |-> 1] }

\* new Date() in updateDisplay and updateCountdownOnly
AppNows == {At(366, 12 * MsPerHour)}

\* a library that throws every day
ThrowingOracle == [d \in 0 .. Window - 1 |-> [sunset |-> OracleThrow, sunrise |-> OracleThrow]]

\* the page is loaded in a browser with geolocation and a library that gives
\* a sunset every day, in one without geolocation, or in one whose library
\* throws; localStorage is empty and works
AppInit ==
  /\ oracle \in {LadderOracle(LateSunset, LateSunset), ThrowingOracle}
  /\ pc = "idle"
  /\ call = NoCall
  /\ i = 0
  /\ results = <<>>
  /\ ret = NoReturn
  /\ oracleCalls = 0
  /\ currentLocation = Absent
  /\ watchId = Absent
  /\ navigator \in { [geolocation |-> g, watches |-> {}, nextWatchId |-> 1] : g \in BOOLEAN }
  /\ oracle = ThrowingOracle => navigator.geolocation
  /\ localStorage = [items |-> [currentLocation |-> Absent, recentLocations |-> Absent],
                     throws |-> {}]
  /\ pending = <<>>
  /\ geoRet = NoCall
  /\ app = NoApp
  /\ window = NoWindow

\* loadInitialLocation from the result r of getCurrentLocation on, then
\* startUpdateLoop
InitialLocationLoaded(r, now) ==
  /\ currentLocation' = r.current
  /\ localStorage' = r.storage
  /\ app' = [constructed |-> TRUE,
             currentLocation |-> IF r.val.location.defined THEN r.val.location
                                 ELSE Some(getDefaultLocation),
             updateInterval |-> Some(window.nextId)]
  /\ window' = startUpdateLoop(
       [window EXCEPT !.dom =
          updateDisplay(IF r.val.location.defined \/ ~r.val.error.defined THEN @
                        ELSE showLocationError(@, r.val.error.val.message),
                        IF r.val.location.defined THEN r.val.location
                        ELSE Some(getDefaultLocation),
                        now)])

\* new SunsetCountdownApp(): init runs up to the await of the detection
Construct ==
  /\ ~app.constructed
  /\ \E now \in AppNows :
       IF Cached(currentLocation)
       THEN /\ InitialLocationLoaded([current |-> currentLocation, storage |-> localStorage,
                                      val |-> DetectionResult(currentLocation, Absent)], now)
            /\ UNCHANGED pending
       ELSE IF ~navigator.geolocation
       THEN /\ InitialLocationLoaded(ResolveLocation(currentLocation, localStorage,
                                                     NotSupported), now)
            /\ UNCHANGED pending
       ELSE /\ Len(pending) < MaxPending
            /\ pending' = Append(pending, [op |-> "loadInitialLocation"])
            /\ app' = [app EXCEPT !.constructed = TRUE]
            /\ UNCHANGED <<currentLocation, localStorage, window>>
  /\ geoRet' = [op |-> "construct"]
  /\ UNCHANGED <<coreVars, watchId, navigator>>

\* the browser answers the detection loadInitialLocation waits for
InitialLocationCallback ==
  \E k \in DOMAIN pending, outcome \in AppOutcomes, now \in AppNows :
    /\ pending[k].op = "loadInitialLocation"
    /\ pending' = SubSeq(pending, 1, k - 1) \o SubSeq(pending, k + 1, Len(pending))
    /\ InitialLocationLoaded(ResolveLocation(currentLocation, localStorage,
                                             Detected(outcome)), now)
    /\ geoRet' = [op |-> "initialLocationCallback"]
    /\ UNCHANGED <<coreVars, watchId, navigator>>

\* this.currentLocation = setManualLocation(latitude, longitude, name);
\* hideLocationPicker(); await updateDisplay()
ChooseLocation(latitude, longitude, name, now) ==
  /\ currentLocation' = Some(ManualLocation(latitude, longitude, name))
  /\ localStorage' =
       saveLocationToStorage(localStorage, ManualLocation(latitude, longitude, name)).val
  /\ app' = [app EXCEPT !.currentLocation = Some(ManualLocation(latitude, longitude, name))]
  /\ window' = [window EXCEPT !.dom =
                  updateDisplay(@, Some(ManualLocation(latitude, longitude, name)), now)]

HandleLocationSubmit ==
  /\ app.constructed
  /\ \E form \in FormInputs, now \in AppNows :
       /\ IF isValidLocation(parseFloat(form.latitude), parseFloat(form.longitude))
          THEN ChooseLocation(parseFloat(form.latitude).val, parseFloat(form.longitude).val,
                              form.name, now)
          ELSE /\ window' = [window EXCEPT !.dom = showError(@,
                    "Please enter valid coordinates (latitude: -90 to 90, longitude: -180 to 180)")]
               /\ UNCHANGED <<currentLocation, localStorage, app>>
       /\ geoRet' = [op |-> "handleLocationSubmit", form |-> form]
  /\ UNCHANGED <<coreVars, watchId, navigator, pending>>

\* a click on a search result or on an entry of the recent locations
LocationClick ==
  /\ app.constructed
  /\ getRecentLocations(localStorage).kind = "array"
  /\ \E location \in SearchResults
                     \cup { getRecentLocations(localStorage).list[k] :
                              k \in DOMAIN getRecentLocations(localStorage).list },
        now \in AppNows :
       /\ ChooseLocation(location.latitude, location.longitude, location.name, now)
       /\ geoRet' = [op |-> "locationClick", val |-> location]
  /\ UNCHANGED <<coreVars, watchId, navigator, pending>>

\* autoDetectLocation from the result of detectLocation on
AutoDetected(result, now) ==
  IF result.location.defined
  THEN /\ app' = [app EXCEPT !.currentLocation = result.location]
       /\ window' = [window EXCEPT !.dom = updateDisplay(@, result.location, now)]
  ELSE /\ window' = [window EXCEPT !.dom = showLocationError(@, result.error.val.message)]
       /\ UNCHANGED app

\* a click on the auto-detect button: autoDetectLocation up to its await
AutoDetectLocation ==
  /\ app.constructed
  /\ IF ~navigator.geolocation
     THEN (\E now \in AppNows : AutoDetected(NotSupported, now)) /\ UNCHANGED pending
     ELSE /\ Len(pending) < MaxPending
          /\ pending' = Append(pending, [op |-> "autoDetectLocation"])
          /\ UNCHANGED <<app, window>>
  /\ geoRet' = [op |-> "autoDetectLocation"]
  /\ UNCHANGED <<coreVars, currentLocation, watchId, navigator, localStorage>>

\* the browser answers the detection autoDetectLocation waits for
AutoDetectCallback ==
  \E k \in DOMAIN pending, outcome \in AppOutcomes, now \in AppNows :
    /\ pending[k].op = "autoDetectLocation"
    /\ pending' = SubSeq(pending, 1, k - 1) \o SubSeq(pending, k + 1, Len(pending))
    /\ AutoDetected(Detected(outcome), now)
    /\ geoRet' = [op |-> "autoDetectCallback"]
    /\ UNCHANGED <<coreVars, currentLocation, watchId, navigator, localStorage>>

\* an interval of the window fires: updateCountdownOnly every second,
\* updateDisplay every 5 minutes
TimerFires ==
  /\ \E t \in window.intervals, now \in AppNows :
       /\ window' = [window EXCEPT !.dom =
            IF ~app.currentLocation.defined THEN @
            ELSE IF t.every = 1000
            THEN CountdownShown(@, calculateCountdown(CoreLocation(app.currentLocation.val), now))
            ELSE updateDisplay(@, app.currentLocation, now)]
       /\ geoRet' = [op |-> "timer", every |-> t.every]
  /\ UNCHANGED <<coreVars, currentLocation, watchId, navigator, localStorage, pending, app>>

\* the time-out of showError hides the message
ErrorHides ==
  /\ window.dom.error.defined
  /\ window' = [window EXCEPT !.dom.error = Absent]
  /\ geoRet' = [op |-> "errorHides"]
  /\ UNCHANGED <<coreVars, currentLocation, watchId, navigator, localStorage, pending, app>>

\* destroy(): stopUpdateLoop(), geolocationService.stopWatchingLocation()
Destroy ==
  /\ app.constructed
  /\ window' = stopUpdateLoop(window, app.updateInterval)
  /\ app' = [app EXCEPT !.updateInterval = Absent]
  /\ IF watchId.defined /\ navigator.geolocation
     THEN /\ navigator' = [navigator EXCEPT !.watches = @ \ {watchId.val}]
          /\ watchId' = Absent
     ELSE UNCHANGED <<watchId, navigator>>
  /\ geoRet' = [op |-> "destroy"]
  /\ UNCHANGED <<coreVars, currentLocation, localStorage, pending>>

AppNext ==
  \/ Construct
  \/ InitialLocationCallback
  \/ HandleLocationSubmit
  \/ LocationClick
  \/ AutoDetectLocation
  \/ AutoDetectCallback
  \/ TimerFires
  \/ ErrorHides
  \/ Destroy

AppSpec == AppInit /\ [][AppNext]_vars

(***************************************************************************)
(* Vocabulary of the properties.                                           *)
(***************************************************************************)
Done(op) == pc = "done" /\ call.op = op

ReturnedValue == ret.kind \in {"value", "list"}

\* the answers of the library for the calendar day of a date
Answer(date) == oracle[date.day % Window]

\* the single-day query of a date, as the caller sees it
DayQuery(location, date) == calculateSunsetInfo(oracle, location, date)

DaySucceeds(location, date) ==
  LET q == DayQuery(location, date)
  IN  ~q.thrown /\ q.val.success /\ q.val.sunsetInfo.defined

\* the day has a successful query whose sunset time-of-day reaches the target
Qualifies(location, targetTime, date) ==
  /\ DaySucceeds(location, date)
  /\ TotalMinutes(DayQuery(location, date).val.sunsetInfo.val.sunset)
       >= TotalMinutes(targetTime)

IsPolarLatitude(location) == Abs(location.latitude) > PolarLatitude

ValidCoordinates(location) ==
  /\ location.latitude >= -900 /\ location.latitude <= 900
  /\ location.longitude >= -1800 /\ location.longitude <= 1800

(***************************************************************************)
(* C1: a match returned by findSunsetAfterTime is the first qualifying day *)
(* of the window: its date is start + k days for some 0 <= k < maxDays,    *)
(* its sunsetTime is the sunset the single-day query reports for that date *)
(* with time-of-day >= the target's, and no day start + j (j < k)          *)
(* qualifies.                                                              *)
(***************************************************************************)
C1_FirstQualifyingDay ==
  (Done("findSunsetAfterTime") /\ ReturnedValue /\ ret.val.defined) =>
    \E k \in 0 .. call.maxDays - 1 :
      /\ ret.val.val.date = addDays(call.startDate, k)
      /\ Qualifies(call.location, call.targetTime, ret.val.val.date)
      /\ ret.val.val.sunsetTime =
           DayQuery(call.location, ret.val.val.date).val.sunsetInfo.val.sunset
      /\ \A j \in 0 .. k - 1 :
           ~Qualifies(call.location, call.targetTime, addDays(call.startDate, j))

\* a match on a later day, after a day whose sunset was too early
C1_Witness ==
  /\ Done("findSunsetAfterTime") /\ ReturnedValue /\ ret.val.defined
  /\ ret.val.val.date.day > call.startDate.day
  /\ DaySucceeds(call.location, call.startDate)
  /\ TotalMinutes(ret.val.val.sunsetTime) = TotalMinutes(call.targetTime)

(***************************************************************************)
(* C2: findSunsetAfterTime returns null exactly when no day of the window  *)
(* start .. start + maxDays - 1 qualifies; a day whose query fails is      *)
(* skipped: it neither ends the search nor becomes its result.             *)
(***************************************************************************)
C2_NullIffNoQualifyingDay ==
  /\ Done("findSunsetAfterTime") =>
       /\ ReturnedValue
       /\ ~ret.val.defined <=>
            \A k \in 0 .. call.maxDays - 1 :
              ~Qualifies(call.location, call.targetTime, addDays(call.startDate, k))
       /\ ret.val.defined => DaySucceeds(call.location, ret.val.val.date)
  /\ (pc = "find" /\ call.op = "findSunsetAfterTime") =>
       \A k \in 0 .. i - 1 :
         ~Qualifies(call.location, call.targetTime, addDays(call.startDate, k))

\* a match found on the day after a day whose query failed
C2_Witness ==
  /\ Done("findSunsetAfterTime") /\ ReturnedValue /\ ret.val.defined
  /\ ret.val.val.date = addDays(call.startDate, 1)
  /\ ~DaySucceeds(call.location, call.startDate)

(***************************************************************************)
(* C3 as stated: the search makes at most maxDays oracle calls.            *)
(***************************************************************************)
C3_AtMostMaxDaysOracleCalls ==
  call.op = "findSunsetAfterTime" => oracleCalls <= call.maxDays

(***************************************************************************)
(* C3, amended: findSunsetAfterTime terminates after at most maxDays       *)
(* single-day queries, that is at most 2 * maxDays oracle calls (one       *)
(* getSunset and one getSunrise per scanned day), and then returns a match *)
(* or null.                                                                *)
(***************************************************************************)
C3_ScanBounded ==
  call.op = "findSunsetAfterTime" =>
    /\ i <= call.maxDays
    /\ pc = "find" => oracleCalls <= 2 * i
    /\ pc = "done" => /\ oracleCalls <= 2 * call.maxDays
                      /\ ReturnedValue
                      /\ ret.val.defined => i < call.maxDays

C3_TerminatesWithinMaxDaysQueries ==
  /\ []C3_ScanBounded
  /\ (pc = "find") ~> (pc = "done")

\* a search that ran through its whole window with two oracle calls a day
C3_Witness ==
  /\ Done("findSunsetAfterTime")
  /\ call.maxDays = MaxDaysBound
  /\ i = call.maxDays
  /\ oracleCalls = 2 * call.maxDays

(***************************************************************************)
(* C4 as stated: for coordinates out of range calculateSunsetInfo fails    *)
(* with an invalid-coordinates failure (not a polar one), before any       *)
(* oracle call.                                                            *)
(***************************************************************************)
C4_InvalidCoordinatesFailFirst ==
  (Done("calculateSunsetInfo") /\ ~ValidCoordinates(call.location)) =>
    /\ ReturnedValue
    /\ ~ret.val.success
    /\ ret.val.error # Undefined
    /\ ~ret.val.sunsetInfo.defined
    /\ ret.val.isPolarRegion # "true"
    /\ oracleCalls = 0

(***************************************************************************)
(* C5: a result of calculateSunsetInfo is fully populated for its tag:     *)
(* success iff sunsetInfo is present, and then it carries the sunset and   *)
(* the sunrise the oracle gave, with the location and date supplied;       *)
(* failure implies no sunsetInfo and a defined error.                      *)
(***************************************************************************)
C5_FullyPopulated ==
  Done("calculateSunsetInfo") =>
    /\ ReturnedValue
    /\ ret.val.success <=> ret.val.sunsetInfo.defined
    /\ ret.val.success =>
         /\ Answer(call.date).sunset.kind = "value"
         /\ Answer(call.date).sunrise.kind = "value"
         /\ ret.val.sunsetInfo.val.sunset = At(call.date.day, Answer(call.date).sunset.ms)
         /\ ret.val.sunsetInfo.val.sunrise = At(call.date.day, Answer(call.date).sunrise.ms)
         /\ ret.val.sunsetInfo.val.location = call.location
         /\ ret.val.sunsetInfo.val.date = call.date
         /\ ret.val.error = Undefined
    /\ ~ret.val.success =>
         /\ ~ret.val.sunsetInfo.defined
         /\ ret.val.error # Undefined

\* a successful result at a non-zero clock time of the queried date
C5_Witness ==
  /\ Done("calculateSunsetInfo") /\ ReturnedValue
  /\ ret.val.success
  /\ call.date.ms # 0
  /\ ret.val.sunsetInfo.val.sunset # ret.val.sunsetInfo.val.sunrise

(***************************************************************************)
(* C6: at |latitude| > 66.5, when the oracle returns no value for sunset   *)
(* or sunrise, the result is a failure with isPolarRegion = true and a     *)
(* polarType by season and hemisphere: day-of-year 150..200 gives          *)
(* midnight-sun in the north and polar-night in the south, day-of-year     *)
(* >= 340 or <= 50 the opposite; when the oracle returns both values the   *)
(* result is a success.                                                    *)
(***************************************************************************)
OracleAbsentFor(date) ==
  /\ Answer(date).sunset.kind # "throw"
  /\ Answer(date).sunrise.kind # "throw"
  /\ Answer(date).sunset.kind = "absent" \/ Answer(date).sunrise.kind = "absent"

OracleValuesFor(date) ==
  Answer(date).sunset.kind = "value" /\ Answer(date).sunrise.kind = "value"

InSummerWindow(date) == getDayOfYear(date) \in 150 .. 200

InWinterWindow(date) == getDayOfYear(date) >= 340 \/ getDayOfYear(date) <= 50

C6_PolarClassification ==
  (Done("calculateSunsetInfo") /\ IsPolarLatitude(call.location)) =>
    /\ OracleAbsentFor(call.date) =>
         /\ ReturnedValue
         /\ ~ret.val.success
         /\ ret.val.isPolarRegion = "true"
         /\ (InSummerWindow(call.date) /\ call.location.latitude > 0)
              => ret.val.polarType = "midnight-sun"
         /\ (InSummerWindow(call.date) /\ call.location.latitude < 0)
              => ret.val.polarType = "polar-night"
         /\ (InWinterWindow(call.date) /\ call.location.latitude > 0)
              => ret.val.polarType = "polar-night"
         /\ (InWinterWindow(call.date) /\ call.location.latitude < 0)
              => ret.val.polarType = "midnight-sun"
    /\ OracleValuesFor(call.date) => (ReturnedValue /\ ret.val.success)

\* polar night reported in the north on the first day of the winter window
C6_Witness ==
  /\ Done("calculateSunsetInfo") /\ ReturnedValue
  /\ call.location = Alaska
  /\ getDayOfYear(call.date) = 340
  /\ OracleAbsentFor(call.date)
  /\ ret.val.polarType = "polar-night"

(***************************************************************************)
(* C7: at |latitude| <= 66.5, when the oracle returns no value for sunset  *)
(* or for sunrise, the result is a generic failure that is not a polar     *)
(* condition: success = false, isPolarRegion = false, no polarType.        *)
(***************************************************************************)
C7_GenericFailure ==
  (Done("calculateSunsetInfo") /\ ~IsPolarLatitude(call.location)
     /\ OracleAbsentFor(call.date)) =>
    /\ ReturnedValue
    /\ ~ret.val.success
    /\ ret.val.isPolarRegion = "false"
    /\ ret.val.polarType = Undefined
    /\ ret.val.error = "Unable to calculate sunset times for this location and date"

\* the generic failure at exactly 66.5 degrees, sunrise missing
C7_Witness ==
  /\ Done("calculateSunsetInfo") /\ ReturnedValue
  /\ call.location = ArcticEdge
  /\ Answer(call.date).sunset.kind = "value"
  /\ Answer(call.date).sunrise.kind = "absent"
  /\ ret.val.isPolarRegion = "false"

(***************************************************************************)
(* C8 as stated: calculateSunsetInfo gives the same tagged result (success,*)
(* isPolarRegion, polarType) whether the oracle signals no value by        *)
(* returning absent or by throwing.                                        *)
(***************************************************************************)
\* the oracle that returns an absent sunset where orc throws
AbsentInsteadOfThrow(orc) ==
  [d \in DOMAIN orc |->
     IF orc[d].sunset.kind = "throw" THEN [orc[d] EXCEPT !.sunset = OracleAbsent]
     ELSE orc[d]]

C8_ThrowSameAsAbsent ==
  (Done("calculateSunsetInfo") /\ Answer(call.date).sunset.kind = "throw") =>
    LET other == calculateSunsetInfo(AbsentInsteadOfThrow(oracle), call.location, call.date)
    IN  /\ ReturnedValue
        /\ ~other.thrown
        /\ ret.val.success = other.val.success
        /\ ret.val.isPolarRegion = other.val.isPolarRegion
        /\ ret.val.polarType = other.val.polarType

(***************************************************************************)
(* C9: no core operation throws: calculateSunsetInfo,                      *)
(* calculateSunsetProgression, findSunsetAfterTime, getNextMilestone,      *)
(* getUpcomingMilestones, calculateCountdown and getMilestoneCalendar each *)
(* return a value, whatever the oracle does (throwing included).           *)
(***************************************************************************)
C9_NoOperationThrows ==
  pc = "done" =>
    /\ call.op \in {"calculateSunsetInfo", "calculateSunsetProgression",
                    "findSunsetAfterTime", "getNextMilestone",
                    "getUpcomingMilestones", "calculateCountdown",
                    "getMilestoneCalendar"}
    /\ ReturnedValue

\* a calendar whose searches start on a day for which the oracle throws
C9_Witness ==
  /\ Done("getMilestoneCalendar")
  /\ Len(call.milestoneHours) > 0
  /\ Answer(call.startDate).sunset.kind = "throw"
  /\ ret.kind = "list"
  /\ Len(ret.list) = Len(call.milestoneHours)

(***************************************************************************)
(* C10: calculateSunsetProgression(location, start, N) returns exactly N   *)
(* entries, entry k being the single-day query result of start + k days    *)
(* (k = 0 .. N-1); a failing day contributes its failure entry.            *)
(***************************************************************************)
C10_ProgressionEntries ==
  Done("calculateSunsetProgression") =>
    /\ ReturnedValue
    /\ Len(ret.list) = call.days
    /\ \A k \in 0 .. call.days - 1 :
         /\ ret.list[k + 1] = DayQuery(call.location, addDays(call.startDate, k)).val
         /\ ret.list[k + 1].success =>
              ret.list[k + 1].sunsetInfo.val.date = addDays(call.startDate, k)

\* a progression of the largest length with a failing and a successful day
C10_Witness ==
  /\ Done("calculateSunsetProgression") /\ ReturnedValue
  /\ call.days = MaxDaysBound
  /\ Len(ret.list) = MaxDaysBound
  /\ \E j, k \in 1 .. Len(ret.list) : ret.list[j].success /\ ~ret.list[k].success

(***************************************************************************)
(* Vocabulary of the milestone properties.                                 *)
(***************************************************************************)
HalfHour == 30 * MsPerMinute

\* today's sunset, as the single-day query of the call's date reports it
TodaySunset == DayQuery(call.location, call.currentDate).val.sunsetInfo.val.sunset

\* the smallest multiple of 30 minutes strictly greater than a time-of-day,
\* in milliseconds since midnight (24:00 is MsPerDay)
NextBoundaryMs(date) == ((date.ms \div HalfHour) + 1) * HalfHour

\* a getNextMilestone call has returned a milestone
PrimaryReturned ==
  Done("getNextMilestone") /\ ReturnedValue /\ ret.val.milestone.defined

(***************************************************************************)
(* C11 as stated: for every sunset time-of-day from 00:00 to 23:59 the     *)
(* time-of-day of the milestone chosen by getNextMilestone is the smallest *)
(* multiple of 30 minutes strictly greater than today's sunset             *)
(* time-of-day.  A sunset from 23:30 on refutes it: the chosen time is     *)
(* 00:00 of the next day, whose time-of-day is below the sunset's.         *)
(***************************************************************************)
C11_NextBoundaryAllDay ==
  PrimaryReturned =>
    ret.val.milestone.val.time.ms = NextBoundaryMs(TodaySunset)

(***************************************************************************)
(* C11, amended: for a sunset before 23:30 the milestone is on the day of  *)
(* today's sunset at the smallest multiple of 30 minutes strictly greater  *)
(* than the sunset time-of-day (hh:00..hh:29 gives hh:30, hh:30..hh:59     *)
(* gives (hh+1):00); for a sunset from 23:30 on it is 00:00 of the next    *)
(* day.                                                                    *)
(***************************************************************************)
C11_NextBoundary ==
  PrimaryReturned =>
    LET sunset == TodaySunset
        time == ret.val.milestone.val.time
    IN  /\ time.ms % HalfHour = 0
        /\ IF sunset.ms < 23 * MsPerHour + HalfHour
           THEN /\ time = [day |-> sunset.day, ms |-> NextBoundaryMs(sunset)]
                /\ getMinutes(sunset) < 30 =>
                     getHours(time) = getHours(sunset) /\ getMinutes(time) = 30
                /\ getMinutes(sunset) >= 30 =>
                     getHours(time) = getHours(sunset) + 1 /\ getMinutes(time) = 0
           ELSE time = [day |-> sunset.day + 1, ms |-> 0]

\* a sunset at 18:29:59.999 gave 18:30 and the search found the day it is reached
C11_Witness ==
  /\ PrimaryReturned
  /\ TodaySunset.ms = 18 * MsPerHour + HalfHour - 1
  /\ ret.val.milestone.val.time =
       [day |-> call.currentDate.day, ms |-> 18 * MsPerHour + HalfHour]

\* a getUpcomingMilestones call has returned its list
UpcomingReturned == Done("getUpcomingMilestones") /\ ReturnedValue

\* the times of the ladder milestones a finished call returned: the primary
\* of getNextMilestone, the entries of getUpcomingMilestones
LadderTimes ==
  IF PrimaryReturned THEN {ret.val.milestone.val.time}
  ELSE IF UpcomingReturned THEN {ret.list[k].time : k \in DOMAIN ret.list}
  ELSE {}

ReachesTarget(q, targetTime) ==
  /\ ~q.thrown
  /\ q.val.success
  /\ q.val.sunsetInfo.defined
  /\ TotalMinutes(q.val.sunsetInfo.val.sunset) >= TotalMinutes(targetTime)

\* no day of the search horizon from startDate reaches the target
HorizonExhausted(location, targetTime, startDate) ==
  \A k \in 0 .. SearchHorizon - 1 :
    ~ReachesTarget(DayQuery(location, addDays(startDate, k)), targetTime)

(***************************************************************************)
(* C13: getNextMilestone returns failures as data.  When today's query     *)
(* fails the result is {milestone null, sunsetInfo null, daysUntil 0} with *)
(* the error of that query unchanged; when today's query succeeds and no   *)
(* day of the horizon reaches the boundary the result is {milestone null,  *)
(* sunsetInfo null, daysUntil 0} with an error defined; and in every       *)
(* result the milestone is non-null exactly when the error is undefined.   *)
(***************************************************************************)
C13_FailuresPropagate ==
  Done("getNextMilestone") =>
    LET today == DayQuery(call.location, call.currentDate)
    IN  /\ ReturnedValue
        /\ ~today.val.success =>
             ret.val = NextMilestoneResult(Absent, Absent, 0, today.val.error)
        /\ (/\ today.val.success
            /\ HorizonExhausted(call.location,
                                NextMilestoneTime(today.val.sunsetInfo.val.sunset),
                                call.currentDate))
             => /\ ~ret.val.milestone.defined
                /\ ~ret.val.sunsetInfo.defined
                /\ ret.val.daysUntil = 0
                /\ ret.val.error # Undefined
        /\ ret.val.milestone.defined <=> ret.val.error = Undefined

\* the polar failure of today's query came back as the error of getNextMilestone
C13_Witness ==
  /\ Done("getNextMilestone")
  /\ ReturnedValue
  /\ ~DayQuery(call.location, call.currentDate).val.success
  /\ DayQuery(call.location, call.currentDate).val.isPolarRegion = "true"
  /\ ret.val.error = DayQuery(call.location, call.currentDate).val.error
  /\ ~ret.val.milestone.defined

\* k is the offset of the first day from startDate that reaches the target
FirstQualifyingOffset(location, targetTime, startDate, k) ==
  /\ Qualifies(location, targetTime, addDays(startDate, k))
  /\ \A j \in 0 .. k - 1 : ~Qualifies(location, targetTime, addDays(startDate, j))

(***************************************************************************)
(* C14: a milestone returned by getNextMilestone has isPrimary true and    *)
(* type 'hour' when its minute is 0, 'half-hour' otherwise (never          *)
(* 'exact-sunset' or 'golden-hour'); daysUntil is ceil((matchDate - now) / *)
(* 1 day), is >= 0, and is the day offset of the matched date (the first   *)
(* day that reaches the milestone) from now.                               *)
(***************************************************************************)
C14_PrimaryShape ==
  PrimaryReturned =>
    LET milestone == ret.val.milestone.val
    IN  /\ milestone.isPrimary = TRUE
        /\ milestone.type = (IF getMinutes(milestone.time) = 0 THEN "hour" ELSE "half-hour")
        /\ milestone.type \notin {"exact-sunset", "golden-hour"}
        /\ ret.val.daysUntil >= 0
        /\ \E k \in 0 .. SearchHorizon - 1 :
             /\ FirstQualifyingOffset(call.location, milestone.time, call.currentDate, k)
             /\ ret.val.daysUntil = k
             /\ ret.val.daysUntil =
                  CeilDays(TimeDiff(addDays(call.currentDate, k), call.currentDate))

\* an 'hour' milestone at 18:00, reached by tomorrow's sunset: daysUntil is 1
C14_Witness ==
  /\ PrimaryReturned
  /\ ret.val.milestone.val.type = "hour"
  /\ ret.val.milestone.val.time.ms = 18 * MsPerHour
  /\ ret.val.daysUntil = 1
  /\ call.currentDate.ms = 0

\* the primary milestone of the call's location and date
PrimaryOfCall == getNextMilestone(call.location, call.currentDate).val.milestone

\* a clock time later than 21:30
PastNineThirty(time) == TotalMinutes(time) > 21 * 60 + 30

\* the sunset of every day but today reaches every boundary of the day
OtherDaysLate == \A d \in 1 .. Window - 1 : oracle[d].sunset.ms = LateSunset

(***************************************************************************)
(* C15 as stated: getUpcomingMilestones stops at 21:00 inclusive, no entry *)
(* has a clock time later than 21:00 (21:30 never appears).  Refuted by a  *)
(* list that holds the 21:30 boundary.                                     *)
(***************************************************************************)
C15_NoEntryAfter2100 ==
  UpcomingReturned =>
    \A k \in DOMAIN ret.list : TotalMinutes(ret.list[k].time) <= 21 * 60

(***************************************************************************)
(* C15, amended: getUpcomingMilestones stops at 21:30 inclusive.  No entry *)
(* has a clock time later than 21:30 (21:30 is allowed, 22:00 never        *)
(* appears), and when every boundary is reached by some day a list shorter *)
(* than count ends only because the next boundary is later than 21:30.     *)
(***************************************************************************)
C15_StopsAfter2130 ==
  UpcomingReturned =>
    /\ \A k \in DOMAIN ret.list : ~PastNineThirty(ret.list[k].time)
    /\ (OtherDaysLate /\ PrimaryOfCall.defined /\ Len(ret.list) < call.count)
         => PastNineThirty(addMs(PrimaryOfCall.val.time, (Len(ret.list) + 1) * HalfHour))

\* the list ends with the 21:30 boundary, short of count: 22:00 was not tried
C15_Witness ==
  /\ UpcomingReturned
  /\ Len(ret.list) \in 1 .. call.count - 1
  /\ ret.list[Len(ret.list)].time.ms = 21 * MsPerHour + HalfHour

\* the instant a is later than the instant b
Later(a, b) == a.day > b.day \/ (a.day = b.day /\ a.ms > b.ms)

\* the boundary step half-hours after the primary milestone of the call
BoundaryAfterPrimary(step) == addMs(PrimaryOfCall.val.time, step * HalfHour)

\* the loop of the call reaches the boundary: no boundary up to it is past 21:30
BoundaryTried(step) ==
  /\ step \in 1 .. call.count
  /\ \A j \in 1 .. step : ~PastNineThirty(BoundaryAfterPrimary(j))

(***************************************************************************)
(* C16: every entry of getUpcomingMilestones has isPrimary false, minute 0 *)
(* or 30, hour <= 21 (minute <= 30 at hour 21) and a time strictly later   *)
(* than the previous entry's and than the primary milestone's; the entries *)
(* are successive 30-minute steps after the primary, a step missing only   *)
(* where its search found no day of the horizon.                           *)
(***************************************************************************)
C16_UpcomingEntries ==
  UpcomingReturned =>
    /\ Len(ret.list) > 0 => PrimaryOfCall.defined
    /\ \A k \in DOMAIN ret.list :
         /\ ret.list[k].isPrimary = FALSE
         /\ getMinutes(ret.list[k].time) \in {0, 30}
         /\ getHours(ret.list[k].time) <= 21
         /\ getHours(ret.list[k].time) = 21 => getMinutes(ret.list[k].time) <= 30
         /\ Later(ret.list[k].time, PrimaryOfCall.val.time)
         /\ k > 1 => Later(ret.list[k].time, ret.list[k - 1].time)
         /\ \E step \in 1 .. call.count :
              BoundaryTried(step) /\ ret.list[k].time = BoundaryAfterPrimary(step)
    /\ PrimaryOfCall.defined =>
         \A step \in 1 .. call.count :
           BoundaryTried(step) =>
             ((\E k \in DOMAIN ret.list : ret.list[k].time = BoundaryAfterPrimary(step))
                <=> ~HorizonExhausted(call.location, BoundaryAfterPrimary(step),
                                      call.currentDate))

\* primary 20:30, entry 21:00, and 21:30 left out: no day's sunset reaches it
C16_Witness ==
  /\ UpcomingReturned
  /\ PrimaryOfCall.defined
  /\ PrimaryOfCall.val.time.ms = 20 * MsPerHour + HalfHour
  /\ Len(ret.list) = 1
  /\ ret.list[1].time.ms = 21 * MsPerHour
  /\ BoundaryTried(2)
  /\ HorizonExhausted(call.location, BoundaryAfterPrimary(2), call.currentDate)

\* the library calls of the search of one boundary the loop of the call reaches
TriedCalls(step) ==
  IF BoundaryTried(step)
  THEN findSunsetAfterTime(call.location, BoundaryAfterPrimary(step), call.currentDate,
                           SearchHorizon).calls
  ELSE 0

RECURSIVE SumTriedCalls(_)
SumTriedCalls(n) == IF n = 0 THEN 0 ELSE SumTriedCalls(n - 1) + TriedCalls(n)

(***************************************************************************)
(* C17: getUpcomingMilestones returns at most count entries, none for      *)
(* count 0 and none when getNextMilestone yields no primary milestone; a   *)
(* boundary whose search finds nothing is left out without ending the      *)
(* loop: every boundary up to count that is not past the upper bound is    *)
(* searched, as the library calls made by the call show.                   *)
(***************************************************************************)
C17_AtMostCount ==
  Done("getUpcomingMilestones") =>
    /\ ReturnedValue
    /\ Len(ret.list) <= call.count
    /\ call.count = 0 => ret.list = <<>>
    /\ ~PrimaryOfCall.defined => ret.list = <<>>
    /\ PrimaryOfCall.defined =>
         oracleCalls = getNextMilestone(call.location, call.currentDate).calls
                         + SumTriedCalls(call.count)

\* neither boundary after the primary is reached: both were searched, the
\* list is empty
C17_Witness ==
  /\ Done("getUpcomingMilestones")
  /\ call.count = 2
  /\ PrimaryOfCall.defined
  /\ ret.list = <<>>
  /\ HorizonExhausted(call.location, BoundaryAfterPrimary(1), call.currentDate)
  /\ BoundaryTried(2)
  /\ oracleCalls = getNextMilestone(call.location, call.currentDate).calls
                     + TriedCalls(1) + TriedCalls(2)
  /\ TriedCalls(2) > 0

\* the target instant of the countdown of the call: the sunset of the first
\* day from now that reaches the primary milestone
CountdownTarget ==
  LET k == CHOOSE k \in 0 .. SearchHorizon - 1 :
             FirstQualifyingOffset(call.location, PrimaryOfCall.val.time,
                                   call.currentDate, k)
  IN  DayQuery(call.location, addDays(call.currentDate, k)).val.sunsetInfo.val.sunset

(***************************************************************************)
(* C18 as stated: calculateCountdown returns null whenever there is no     *)
(* milestone or targetInstant - now <= 0, equality included, so a          *)
(* breakdown is never returned for a target at or before now.  Refuted by  *)
(* a call made at the very instant of the target.                          *)
(***************************************************************************)
C18_NullUnlessStrictlyFuture ==
  Done("calculateCountdown") =>
    /\ ~PrimaryOfCall.defined => ~ret.val.defined
    /\ ret.val.defined => Later(ret.val.val.targetDate, call.currentDate)

(***************************************************************************)
(* C18, amended: calculateCountdown returns null whenever there is no      *)
(* milestone or the target instant is before now (targetInstant - now <    *)
(* 0); a target equal to now gives a breakdown, of all zeros.  A breakdown *)
(* is returned exactly when the milestone exists and its target is not     *)
(* before now, and it carries that target.                                 *)
(***************************************************************************)
C18_NullWhenPast ==
  Done("calculateCountdown") =>
    /\ ReturnedValue
    /\ ~PrimaryOfCall.defined => ~ret.val.defined
    /\ PrimaryOfCall.defined =>
         /\ ret.val.defined <=> ~Later(call.currentDate, CountdownTarget)
         /\ ret.val.defined => ret.val.val.targetDate = CountdownTarget
         /\ (ret.val.defined /\ CountdownTarget = call.currentDate) =>
              /\ ret.val.val.timeRemaining =
                   [days |-> 0, hours |-> 0, minutes |-> 0, seconds |-> 0]
              /\ ret.val.val.totalMinutes = 0

\* now is 23:50, today's sunset at 23:45 reaches the milestone 00:00: null
C18_Witness ==
  /\ Done("calculateCountdown")
  /\ PrimaryOfCall.defined
  /\ Later(call.currentDate, CountdownTarget)
  /\ ret.val = Absent

\* a calculateCountdown call has returned a breakdown
BreakdownReturned == Done("calculateCountdown") /\ ReturnedValue /\ ret.val.defined

\* d = targetInstant - now of the returned breakdown, in milliseconds (the
\* target is within a few days of now)
CountdownMs ==
  (ret.val.val.targetDate.day - call.currentDate.day) * MsPerDay
    + (ret.val.val.targetDate.ms - call.currentDate.ms)

(***************************************************************************)
(* C19: every breakdown of calculateCountdown has days >= 0, hours in      *)
(* 0..23, minutes in 0..59 and seconds in 0..59, and is the mixed-radix    *)
(* decomposition of d = targetInstant - now: days*86400000 + hours*3600000 *)
(* + minutes*60000 + seconds*1000 <= d < that sum + 1000, and totalMinutes *)
(* = floor(d / 60000) = days*1440 + hours*60 + minutes.                    *)
(***************************************************************************)
C19_MixedRadix ==
  BreakdownReturned =>
    LET t == ret.val.val.timeRemaining
        sum == t.days * 86400000 + t.hours * 3600000 + t.minutes * 60000
                 + t.seconds * 1000
    IN  /\ t.days >= 0
        /\ t.hours \in 0 .. 23
        /\ t.minutes \in 0 .. 59
        /\ t.seconds \in 0 .. 59
        /\ sum <= CountdownMs
        /\ CountdownMs < sum + 1000
        /\ ret.val.val.totalMinutes = CountdownMs \div 60000
        /\ ret.val.val.totalMinutes = t.days * 1440 + t.hours * 60 + t.minutes

\* from 18:00:30 to tomorrow's sunset at 23:59:59.999: 1 day 5:59:29
C19_Witness ==
  /\ BreakdownReturned
  /\ call.currentDate.ms = 18 * MsPerHour + 30 * MsPerSecond
  /\ ret.val.val.targetDate = [day |-> call.currentDate.day + 1, ms |-> LateSunset]
  /\ ret.val.val.timeRemaining = [days |-> 1, hours |-> 5, minutes |-> 59, seconds |-> 29]

\* the target time of a calendar target given in tenths of an hour
CalendarTargetTime(hourDecimal) ==
  setHours(SystemNow, hourDecimal \div 10, ((hourDecimal % 10) * 60) \div 10)

(***************************************************************************)
(* C20: getMilestoneCalendar returns one entry per target, in input order. *)
(* The entry of a target some day of the horizon reaches has date = the    *)
(* matched date (the first such day) and daysFromNow = ceil((matchDate -   *)
(* startDate) / 1 day) >= 0; the entry of a target no day reaches has date *)
(* null and daysFromNow -1; date is null exactly when daysFromNow is -1.   *)
(***************************************************************************)
C20_CalendarEntries ==
  Done("getMilestoneCalendar") =>
    /\ ReturnedValue
    /\ Len(ret.list) = Len(call.milestoneHours)
    /\ \A j \in DOMAIN ret.list :
         LET target == CalendarTargetTime(call.milestoneHours[j])
             entry == ret.list[j]
         IN  /\ entry.time = CalendarLabel(getHours(target), getMinutes(target))
             /\ entry.date.defined <=> entry.daysFromNow # -1
             /\ IF HorizonExhausted(call.location, target, call.startDate)
                THEN entry.date = Absent /\ entry.daysFromNow = -1
                ELSE \E k \in 0 .. SearchHorizon - 1 :
                       /\ FirstQualifyingOffset(call.location, target, call.startDate, k)
                       /\ entry.date = Some(addDays(call.startDate, k))
                       /\ entry.daysFromNow = k
                       /\ entry.daysFromNow =
                            CeilDays(TimeDiff(addDays(call.startDate, k), call.startDate))
                       /\ entry.daysFromNow >= 0

\* targets 18.5, 17 and 23: reached tomorrow, reached today, never reached
C20_Witness ==
  /\ Done("getMilestoneCalendar")
  /\ call.milestoneHours = <<185, 170, 230>>
  /\ ret.list[1].date = Some(addDays(call.startDate, 1))
  /\ ret.list[1].daysFromNow = 1
  /\ ret.list[2].date = Some(call.startDate)
  /\ ret.list[2].daysFromNow = 0
  /\ ret.list[3] = [time |-> "11:00 PM", date |-> Absent, daysFromNow |-> -1]

\* the 12-hour clock rendering of a target given in tenths of an hour, 1 <= h < 24
ClockHour(hourDecimal) ==
  CASE hourDecimal \div 10 = 12 -> "12"
    [] hourDecimal \div 10 < 12 -> ToString(hourDecimal \div 10)
    [] OTHER -> ToString(hourDecimal \div 10 - 12)

ClockLabel(hourDecimal) ==
  ClockHour(hourDecimal) \o ":" \o (IF hourDecimal % 10 = 0 THEN "00" ELSE "30")
    \o " " \o (IF hourDecimal >= 120 THEN "PM" ELSE "AM")

(***************************************************************************)
(* C21: the label of each getMilestoneCalendar entry is the 12-hour clock  *)
(* rendering "H:MM AM|PM" of its target: for every whole-hour or half-hour *)
(* target h with 1 <= h < 24, H is h mod 12 (12 when the hour is 12), MM   *)
(* is 00 or 30 and the suffix is PM exactly when h >= 12; the targets      *)
(* [17, 18, 19] give "5:00 PM", "6:00 PM", "7:00 PM" in that order.        *)
(***************************************************************************)
C21_ClockLabels ==
  Done("getMilestoneCalendar") =>
    /\ ReturnedValue
    /\ \A j \in DOMAIN ret.list :
         (call.milestoneHours[j] >= 10 /\ call.milestoneHours[j] < 240)
           => ret.list[j].time = ClockLabel(call.milestoneHours[j])
    /\ call.milestoneHours = <<170, 180, 190>> =>
         /\ Len(ret.list) = 3
         /\ ret.list[1].time = "5:00 PM"
         /\ ret.list[2].time = "6:00 PM"
         /\ ret.list[3].time = "7:00 PM"

\* the half hours from noon were labelled 12:00 PM, 12:30 PM, 1:00 PM, ..., 5:30 PM
C21_Witness ==
  /\ Done("getMilestoneCalendar")
  /\ call.milestoneHours = HalfHours(2)
  /\ ret.kind = "list"
  /\ ret.list[1].time = "12:00 PM"
  /\ ret.list[2].time = "12:30 PM"
  /\ ret.list[3].time = "1:00 PM"
  /\ ret.list[12].time = "5:30 PM"

(***************************************************************************)
(* C22: GeolocationService keeps at most one active position watch.  Over  *)
(* any sequence of calls, startWatchingLocation registers a watch with the *)
(* geolocation API only when none is active (a start while watching, or    *)
(* without the API, changes nothing), stopWatchingLocation clears exactly  *)
(* the registered watch id and resets the handle, and a start after a stop *)
(* registers a new watch.                                                  *)
(***************************************************************************)
C22_AtMostOneWatch ==
  [][ /\ Cardinality(navigator'.watches) <= 1
      /\ navigator'.watches = IF watchId'.defined THEN {watchId'.val} ELSE {}
      /\ geoRet'.op = "startWatchingLocation" =>
           IF watchId.defined \/ ~navigator.geolocation
           THEN /\ geoRet'.registered = Absent
                /\ navigator' = navigator
                /\ watchId' = watchId
           ELSE /\ geoRet'.registered.defined
                /\ watchId' = geoRet'.registered
                /\ watchId'.val \notin navigator.watches
                /\ navigator'.watches = navigator.watches \cup {watchId'.val}
      /\ geoRet'.op = "stopWatchingLocation" =>
           IF watchId.defined /\ navigator.geolocation
           THEN /\ geoRet'.cleared = watchId
                /\ navigator'.watches = navigator.watches \ {watchId.val}
                /\ watchId' = Absent
           ELSE /\ geoRet'.cleared = Absent
                /\ navigator' = navigator
                /\ watchId' = watchId
    ]_vars

\* a start after a stop registered the second watch, and it is the only one active
C22_Witness ==
  /\ geoRet.op = "startWatchingLocation"
  /\ geoRet.registered = Some(2)
  /\ watchId = Some(2)
  /\ navigator.watches = {2}

\* the locations setManualLocation can have made the current location
SetManually == { Some(ManualLocation(input[1], input[2], input[3])) : input \in ManualInputs }

\* this step resolves a getCurrentLocation that was called right after the
\* last setManualLocation: nothing ran between the two calls, nor between
\* the call and the answer of the browser
ResolvesAfterManual ==
  /\ geoRet'.op = "getCurrentLocation"
  /\ currentLocation \in SetManually
  /\ \/ geoRet.op = "setManualLocation"
     \/ geoRet.op = "await" /\ Len(pending) = 1

(***************************************************************************)
(* C23: getCurrentLocation returns the cached current location, without    *)
(* error, whenever one is available: after setManualLocation(lat, lon,     *)
(* name) has set the current location of the service, a following          *)
(* getCurrentLocation resolves to that same location (same coordinates and *)
(* name) and does not replace it, whatever the geolocation API and the     *)
(* storage do.                                                             *)
(***************************************************************************)
C23_ManualLocationIsCached ==
  [][ ResolvesAfterManual =>
        /\ geoRet'.val = DetectionResult(currentLocation, Absent)
        /\ currentLocation' = currentLocation
    ]_vars

\* this step resolves a getCurrentLocation whose cache test failed
ResolvesUncached ==
  /\ geoRet'.op = "getCurrentLocation"
  /\ pending' # pending \/ ~Cached(currentLocation)

\* localStorage holds a readable location under the key currentLocation
StoredLocationExists ==
  /\ "getItem" \notin localStorage.throws
  /\ localStorage.items.currentLocation.defined
  /\ "json" \in DOMAIN localStorage.items.currentLocation.val

\* the step returns the detected position when there is one, otherwise the
\* stored location when there is one, otherwise an error
SourceOrder ==
  IF geoRet'.auto.location.defined
  THEN /\ geoRet'.val = geoRet'.auto
       /\ geoRet'.val.location.val.source = "geolocation"
       /\ ~geoRet'.val.error.defined
       /\ currentLocation' = geoRet'.val.location
  ELSE IF StoredLocationExists
  THEN /\ geoRet'.val.location = Some(localStorage.items.currentLocation.val.json.val)
       /\ ~geoRet'.val.error.defined
  ELSE /\ ~geoRet'.val.location.defined
       /\ geoRet'.val.error.defined
       /\ geoRet'.val.error.val.fallbackRequired
       /\ \/ geoRet'.val.error = geoRet'.auto.error
          \/ geoRet'.val.error.val.message = "No location available"

\* after the step the key currentLocation holds the JSON of the returned location
Persisted ==
  localStorage'.items.currentLocation =
    Some(JSONstringify([kind |-> "object", val |-> geoRet'.val.location.val]))

C25_FailureLeavesStorageUnchanged ==
  [][ (geoRet'.op = "setManualLocation" /\ localStorage.throws # {}) =>
        /\ ~geoRet'.thrown
        /\ geoRet'.val.source = "manual"
        /\ currentLocation' = Some(geoRet'.val)
        /\ localStorage' = localStorage
    ]_vars

(***************************************************************************)
(* C25, amended: setManualLocation never throws, whatever call of          *)
(* localStorage throws; it returns the new location (source 'manual') and  *)
(* the current location of the service is that location.  A write that     *)
(* throws leaves its item as it was: when the write of currentLocation     *)
(* throws nothing is persisted, otherwise the new location is persisted as *)
(* currentLocation and the recent locations are left unchanged when their  *)
(* write throws.                                                           *)
(***************************************************************************)
C25_NeverThrows ==
  [][ geoRet'.op = "setManualLocation" =>
        /\ ~geoRet'.thrown
        /\ geoRet'.val.source = "manual"
        /\ Some(geoRet'.val) \in SetManually
        /\ currentLocation' = Some(geoRet'.val)
        /\ localStorage'.throws = localStorage.throws
        /\ IF "setItem.currentLocation" \in localStorage.throws
           THEN localStorage' = localStorage
           ELSE /\ localStorage'.items.currentLocation =
                     Some(JSONstringify([kind |-> "object", val |-> geoRet'.val]))
                /\ "setItem.recentLocations" \in localStorage.throws =>
                     localStorage'.items.recentLocations = localStorage.items.recentLocations
    ]_vars

\* every call of localStorage throws: the call returned the new location, the
\* service holds it, and the stored current location is not it
C25_Witness ==
  /\ geoRet.op = "setManualLocation"
  /\ ~geoRet.thrown
  /\ "setItem.currentLocation" \in localStorage.throws
  /\ "getItem" \in localStorage.throws
  /\ currentLocation = Some(geoRet.val)
  /\ localStorage.items.currentLocation #
       Some(JSONstringify([kind |-> "object", val |-> geoRet.val]))

\* the time of day, in minutes, that the search compares a calendar target on
TargetMinutes(hourDecimal) == TotalMinutes(CalendarTargetTime(hourDecimal))

(***************************************************************************)
(* C26: the milestone search is monotone in its target.  For the same      *)
(* location, start and horizon, if t1 <= t2 as times of day and the search *)
(* for t2 finds a match on day d2, the search for t1 finds a match on a    *)
(* day d1 <= d2.  So getMilestoneCalendar called with ascending targets    *)
(* below 24:00 yields non-decreasing daysFromNow over its found entries,   *)
(* and once one entry is not found every later entry is not found.         *)
(***************************************************************************)
C26_MonotoneInTarget ==
  Done("getMilestoneCalendar") =>
    /\ ReturnedValue
    /\ \A j, k \in DOMAIN ret.list :
         /\ (/\ TargetMinutes(call.milestoneHours[j]) <= TargetMinutes(call.milestoneHours[k])
             /\ ret.list[k].date.defined)
              => /\ ret.list[j].date.defined
                 /\ ret.list[j].date.val.day <= ret.list[k].date.val.day
         /\ (/\ j < k
             /\ call.milestoneHours[j] <= call.milestoneHours[k]
             /\ call.milestoneHours[k] < 240)
              => /\ ret.list[k].date.defined =>
                      /\ ret.list[j].date.defined
                      /\ ret.list[j].daysFromNow <= ret.list[k].daysFromNow
                 /\ ~ret.list[j].date.defined => ret.list[k].daysFromNow = -1

\* ascending targets 18:00 .. 23:30 with a sunset just before 18:30 today and
\* at 21:30 on the other days: found today, found tomorrow up to 21:30, not
\* found from 22:00 on
C26_Witness ==
  /\ Done("getMilestoneCalendar")
  /\ call.milestoneHours = HalfHours(3)
  /\ call.startDate = At(366, 0)
  /\ ret.kind = "list"
  /\ ret.list[1].daysFromNow = 0
  /\ ret.list[2].daysFromNow = 1
  /\ ret.list[8].daysFromNow = 1
  /\ ret.list[9].daysFromNow = -1
  /\ ret.list[12].daysFromNow = -1

\* the two times have the same hours and minutes
SameClockMinute(a, b) == getHours(a) = getHours(b) /\ getMinutes(a) = getMinutes(b)

(***************************************************************************)
(* C27: findSunsetAfterTime compares purely on hours * 60 + minutes.  Its  *)
(* result is a function of the location, the hours and minutes of the      *)
(* target, the start date, maxDays and the library: a target with the same *)
(* hours and minutes on another calendar date or with other seconds gives  *)
(* the identical result, and running the same search again gives the same  *)
(* match.                                                                  *)
(***************************************************************************)
C27_SameMinuteSameResult ==
  Done("findSunsetAfterTime") =>
    /\ ReturnedValue
    /\ \A t \in TargetTimes :
         SameClockMinute(t, call.targetTime) =>
           findSunsetAfterTime(call.location, t, call.startDate, call.maxDays)
             = Normal(ret.val, oracleCalls)

\* the search for 18:00:59.999 of day 9 matched a sunset at 18:00:00.000, as
\* the search for 18:00:00.000 of day 1 does
C27_Witness ==
  /\ Done("findSunsetAfterTime")
  /\ call.targetTime = At(9, 18 * MsPerHour + MsPerMinute - 1)
  /\ ret.kind = "value"
  /\ ret.val.defined
  /\ ret.val.val.sunsetTime.ms = 18 * MsPerHour
  /\ findSunsetAfterTime(call.location, At(1, 18 * MsPerHour), call.startDate, call.maxDays).val
       = ret.val

WindowReaches(location, startDate, minutes) ==
  \E k \in 0 .. SearchHorizon - 1 :
    /\ DaySucceeds(location, addDays(startDate, k))
    /\ TotalMinutes(DayQuery(location, addDays(startDate, k)).val.sunsetInfo.val.sunset)
         >= minutes

(***************************************************************************)
(* C29: getMilestoneCalendar resolves each fractional-hour target h, from  *)
(* 0 to 24 in half-hour steps, against the time of day h * 60 minutes: the *)
(* entry has a non-null date if and only if some day of the 365-day window *)
(* has a successful query with sunset time of day >= h * 60 minutes, so a  *)
(* target later than sunset ever reaches (23 or 24) yields date null and   *)
(* daysFromNow -1.                                                         *)
(***************************************************************************)
C29_FoundIffWindowReaches ==
  Done("getMilestoneCalendar") =>
    /\ ReturnedValue
    /\ \A j \in DOMAIN ret.list :
         /\ ret.list[j].date.defined <=>
              WindowReaches(call.location, call.startDate, call.milestoneHours[j] * 6)
         /\ ~ret.list[j].date.defined => ret.list[j].daysFromNow = -1

\* what getNextMilestone returns for the (location, now) of the call
NextOfCall == getNextMilestone(call.location, call.currentDate).val

(***************************************************************************)
(* C30: whenever calculateCountdown returns a breakdown, its milestone is  *)
(* the milestone getNextMilestone returns for the same (location, now),    *)
(* and its targetDate is the sunset instant of the first day on or after   *)
(* now whose sunset time of day reaches that milestone's time of day, that *)
(* is the sunset of the day daysUntil days after now.                      *)
(***************************************************************************)
C30_CountdownMatchesNextMilestone ==
  BreakdownReturned =>
    /\ NextOfCall.milestone.defined
    /\ ret.val.val.milestone = NextOfCall.milestone.val
    /\ NextOfCall.daysUntil \in 0 .. SearchHorizon - 1
    /\ FirstQualifyingOffset(call.location, NextOfCall.milestone.val.time,
                             call.currentDate, NextOfCall.daysUntil)
    /\ DaySucceeds(call.location, addDays(call.currentDate, NextOfCall.daysUntil))
    /\ ret.val.val.targetDate =
         DayQuery(call.location,
                  addDays(call.currentDate, NextOfCall.daysUntil)).val.sunsetInfo.val.sunset

\* a breakdown whose target is the sunset of a later day than today
C30_Witness ==
  /\ BreakdownReturned
  /\ NextOfCall.daysUntil > 0
  /\ ret.val.val.targetDate.day = call.currentDate.day + NextOfCall.daysUntil

\* a breakdown whose target is today's sunset
C30_WitnessToday ==
  /\ BreakdownReturned
  /\ NextOfCall.daysUntil = 0
  /\ ret.val.val.targetDate.day = call.currentDate.day

\* the day the search of a returned primary milestone matched
MatchedDate == addDays(call.currentDate, ret.val.daysUntil)

(***************************************************************************)
(* C31: the primary milestone is never reached today.  Whenever            *)
(* getNextMilestone returns a milestone and today's sunset time of day is  *)
(* before 23:30, the matched date is strictly after the current date       *)
(* (daysUntil >= 1), the boundary being strictly above today's sunset; and *)
(* the sunsetInfo returned is the successful single-day result of the      *)
(* matched date, whose sunset time of day is >= the milestone's.           *)
(***************************************************************************)
C31_NeverReachedToday ==
  PrimaryReturned =>
    /\ TotalMinutes(TodaySunset) < 23 * 60 + 30 =>
         /\ TotalMinutes(ret.val.milestone.val.time) > TotalMinutes(TodaySunset)
         /\ ret.val.daysUntil >= 1
    /\ DaySucceeds(call.location, MatchedDate)
    /\ ret.val.sunsetInfo = DayQuery(call.location, MatchedDate).val.sunsetInfo
    /\ TotalMinutes(ret.val.sunsetInfo.val.sunset)
         >= TotalMinutes(ret.val.milestone.val.time)

\* today's sunset at 17:29 has the boundary 17:30, reached by tomorrow's sunset
C31_Witness ==
  /\ PrimaryReturned
  /\ TotalMinutes(TodaySunset) = 17 * 60 + 29
  /\ TotalMinutes(ret.val.milestone.val.time) = 17 * 60 + 30
  /\ ret.val.daysUntil = 1
  /\ ret.val.sunsetInfo.val.date = MatchedDate

(***************************************************************************)
(* C32: for each entry of getUpcomingMilestones, daysUntil is measured as  *)
(* getNextMilestone measures it: it is the number of whole calendar days   *)
(* from the current date to the date on which sunset first reaches the     *)
(* entry's time (the matched date of the search), for every time of day of *)
(* the current date; and targetDate is the sunset instant of that date.    *)
(***************************************************************************)
C32_UpcomingDaysUntil ==
  UpcomingReturned =>
    \A j \in DOMAIN ret.list :
      \E k \in 0 .. SearchHorizon - 1 :
        /\ FirstQualifyingOffset(call.location, ret.list[j].time, call.currentDate, k)
        /\ ret.list[j].daysUntil = k
        /\ ret.list[j].targetDate =
             DayQuery(call.location, addDays(call.currentDate, k)).val.sunsetInfo.val.sunset

\* the day of the year of the date lies outside both season windows
OutsideBothWindows(date) ==
  getDayOfYear(date) \in 51 .. 149 \/ getDayOfYear(date) \in 201 .. 339

\* a calculateSunsetInfo call has returned a failure marked as polar
PolarFailureReturned ==
  /\ Done("calculateSunsetInfo")
  /\ ReturnedValue
  /\ ~ret.val.success
  /\ ret.val.isPolarRegion = "true"

(***************************************************************************)
(* C33: every polar failure carries a polarType, outside both heuristic    *)
(* windows too: at |latitude| > 66.5, when the oracle yields no value and  *)
(* the day of the year is in 51..149 or 201..339, the classification       *)
(* defaults to midnight-sun for latitude > 0 and to polar-night for        *)
(* latitude < 0; the windows are exactly 150..200 inclusive for summer     *)
(* and >= 340 or <= 50 for winter.                                         *)
(***************************************************************************)
C33_DefaultClassification ==
  /\ PolarFailureReturned => ret.val.polarType \in {"midnight-sun", "polar-night"}
  /\ (/\ Done("calculateSunsetInfo")
      /\ IsPolarLatitude(call.location)
      /\ OracleAbsentFor(call.date)) =>
       /\ PolarFailureReturned
       /\ OutsideBothWindows(call.date) =>
            ret.val.polarType =
              (IF call.location.latitude > 0 THEN "midnight-sun" ELSE "polar-night")
       /\ OutsideBothWindows(call.date) <=>
            ~(InSummerWindow(call.date) \/ InWinterWindow(call.date))
       /\ ret.val.polarType = "polar-night" <=>
            IF call.location.latitude > 0 THEN InWinterWindow(call.date)
            ELSE ~InWinterWindow(call.date)
  /\ \A d \in 1 .. 366 :
       /\ (d >= SummerFirstDay /\ d <= SummerLastDay) <=> d \in 150 .. 200
       /\ (d >= WinterFirstDay \/ d <= WinterLastDay) <=> (d >= 340 \/ d <= 50)

\* midnight sun reported in the north on day 339, the last day before the
\* winter window
C33_Witness ==
  /\ PolarFailureReturned
  /\ call.location = Alaska
  /\ getDayOfYear(call.date) = 339
  /\ OracleAbsentFor(call.date)
  /\ ret.val.polarType = "midnight-sun"

\* polar night reported in the south on day 51, the first day after the
\* winter window
C33_WitnessSouth ==
  /\ PolarFailureReturned
  /\ call.location = Antarctic
  /\ getDayOfYear(call.date) = 51
  /\ ret.val.polarType = "polar-night"

\* the recent-locations list as it is stored
StoredRecent(ls) ==
  IF ls.items.recentLocations.defined
  THEN JSONparse(ls.items.recentLocations.val).val.list
  ELSE <<>>

\* at most 5 entries, no two within 0.001 degrees in latitude and in longitude
WellFormedRecent(list) ==
  /\ Len(list) <= 5
  /\ \A a, b \in DOMAIN list : a # b => ~SamePlace(list[a], list[b])

\* this step is a save: setManualLocation, or a detection that succeeded
SaveStep ==
  \/ geoRet'.op = "setManualLocation"
  \/ geoRet'.op = "getCurrentLocation" /\ geoRet'.auto.location.defined

\* the location the save of this step was given
SavedNow ==
  IF geoRet'.op = "setManualLocation" THEN geoRet'.val ELSE geoRet'.auto.location.val

\* the entries behind the first of new are entries of old in the order of old;
\* an entry of old is missing only if it is within 0.001 degrees of new's
\* first or if four other entries of old stay in front of it
MostRecentFirst(old, new) ==
  /\ \A a \in 2 .. Len(new) : \E k \in DOMAIN old : old[k] = new[a]
  /\ \A a, b \in 2 .. Len(new) :
       a < b => \A k, m \in DOMAIN old : (old[k] = new[a] /\ old[m] = new[b]) => k < m
  /\ \A k \in DOMAIN old :
       (/\ ~SamePlace(old[k], new[1])
        /\ Cardinality({m \in 1 .. k - 1 : ~SamePlace(old[m], new[1])}) < 4)
         => \E a \in 2 .. Len(new) : new[a] = old[k]

(***************************************************************************)
(* C34 as stated: the persisted recent-locations list is kept well-formed  *)
(* by every save.  After any sequence of setManualLocation calls and       *)
(* successful detections from a well-formed or empty stored list, the list *)
(* has at most 5 entries, the most recently saved location is first, the   *)
(* entries are in most-recent-first order and no two entries are within    *)
(* 0.001 degrees of each other in latitude and in longitude.  Refuted by a *)
(* save while localStorage.setItem throws.                                 *)
(***************************************************************************)
C34_SavedLocationFirst ==
  [][ SaveStep =>
        /\ WellFormedRecent(StoredRecent(localStorage'))
        /\ StoredRecent(localStorage') # <<>>
        /\ StoredRecent(localStorage')[1] = SavedNow
        /\ MostRecentFirst(StoredRecent(localStorage), StoredRecent(localStorage')) ]_vars

\* the two writes of a save go through
WritesWork(ls) ==
  "setItem.currentLocation" \notin ls.throws /\ "setItem.recentLocations" \notin ls.throws

(***************************************************************************)
(* C34, amended: after any sequence of saves from a well-formed or empty   *)
(* stored list, the list has at most 5 entries and no two entries within   *)
(* 0.001 degrees of each other in latitude and in longitude.  A save whose *)
(* writes go through puts its location first, in front of the earlier      *)
(* entries in their order, without the entries within 0.001 degrees of it  *)
(* and without those past the fifth; if the list cannot be read the saved  *)
(* location becomes the only entry.  A save whose write throws leaves the  *)
(* list as it was, so the location saved last is then not in it.           *)
(***************************************************************************)
C34_RecentListWellFormed ==
  [][ /\ WellFormedRecent(StoredRecent(localStorage'))
      /\ SaveStep =>
           /\ WritesWork(localStorage) =>
                /\ StoredRecent(localStorage') # <<>>
                /\ StoredRecent(localStorage')[1] = SavedNow
                /\ IF "getItem" \in localStorage.throws
                   THEN StoredRecent(localStorage') = <<SavedNow>>
                   ELSE MostRecentFirst(StoredRecent(localStorage),
                                        StoredRecent(localStorage'))
           /\ ~WritesWork(localStorage) =>
                StoredRecent(localStorage') = StoredRecent(localStorage) ]_vars

\* a sixth place was saved onto five: the oldest entry is gone
C34_Witness ==
  /\ geoRet.op = "setManualLocation"
  /\ geoRet.val = ManualLocation(476062, -1223321, Undefined)
  /\ StoredRecent(localStorage) =
       <<geoRet.val>> \o SubSeq(FullRecentList, 1, 4)

\* a place between two entries 0.0013 degrees apart was saved: it replaced both
C34_WitnessBetween ==
  /\ geoRet.op = "setManualLocation"
  /\ geoRet.val = ManualLocation(476067, -1223321, Undefined)
  /\ Len(StoredRecent(localStorage)) = 4
  /\ StoredRecent(localStorage)[1] = geoRet.val
  /\ \A k \in 2 .. 4 : StoredRecent(localStorage)[k].latitude \notin {476062, 476075}
       \/ StoredRecent(localStorage)[k].longitude # -1223321

\* the text is a decimal numeral and nothing else: an optional sign, digits
\* and an optional fraction
IsNumeral(text) ==
  LET u == IF text # <<>> /\ Head(text) \in {"-", "+"} THEN Tail(text) ELSE text
      whole == LeadingDigits(u)
      rest == SubSeq(u, Len(whole) + 1, Len(u))
  IN  /\ whole # <<>>
      /\ rest # <<>> => (Head(rest) = "." /\ Len(LeadingDigits(Tail(rest))) = Len(rest) - 1)

\* -90 <= lat <= 90 and -180 <= lng <= 180 for two numbers that are not NaN
InRange(lat, lng) ==
  /\ ~lat.nan /\ ~lng.nan
  /\ lat.val \in -900000 .. 900000
  /\ lng.val \in -1800000 .. 1800000

\* this step is handleLocationSubmit for the form kept in geoRet'
Submitted == geoRet'.op = "handleLocationSubmit"

\* the step made the location of the submitted form the current location of
\* the application and of the service, and the persisted one
SubmittedAccepted ==
  LET location == ManualLocation(parseFloat(geoRet'.form.latitude).val,
                                 parseFloat(geoRet'.form.longitude).val, geoRet'.form.name)
  IN  /\ app'.currentLocation = Some(location)
      /\ currentLocation' = Some(location)
      /\ localStorage'.items.currentLocation =
           Some(JSONstringify([kind |-> "object", val |-> location]))

\* the step left the three locations as they were and showed the error
SubmittedRejected ==
  /\ app'.currentLocation = app.currentLocation
  /\ currentLocation' = currentLocation
  /\ localStorage' = localStorage
  /\ window'.dom.error = Some(
       "Please enter valid coordinates (latitude: -90 to 90, longitude: -180 to 180)")

(***************************************************************************)
(* C35 as stated: a manually submitted location is accepted only when      *)
(* valid.  handleLocationSubmit changes the current location of the        *)
(* application, and the cached and persisted location of the service, only *)
(* if -90 <= lat <= 90 and -180 <= lng <= 180, bounds inclusive; for       *)
(* out-of-range or non-numeric input the current location, the cache and   *)
(* the storage are left unchanged and an error is shown.  Refuted by a     *)
(* latitude text that is a number followed by letters.                     *)
(***************************************************************************)
C35_NonNumericRejected ==
  [][ Submitted =>
        IF /\ IsNumeral(geoRet'.form.latitude) /\ IsNumeral(geoRet'.form.longitude)
           /\ InRange(parseFloat(geoRet'.form.latitude), parseFloat(geoRet'.form.longitude))
        THEN SubmittedAccepted
        ELSE SubmittedRejected ]_vars

(***************************************************************************)
(* C35, amended: handleLocationSubmit reads each coordinate with           *)
(* parseFloat, which takes the number at the start of the text and ignores *)
(* what follows it.  The location is accepted, and becomes the current     *)
(* location of the application and the cached and persisted location of    *)
(* the service, exactly when both numbers are read and -90 <= lat <= 90    *)
(* and -180 <= lng <= 180, bounds inclusive; when a text starts with no    *)
(* number or a number read is out of range, the three are left unchanged   *)
(* and the error is shown.                                                 *)
(***************************************************************************)
C35_AcceptedOnlyWhenValid ==
  [][ Submitted =>
        IF InRange(parseFloat(geoRet'.form.latitude), parseFloat(geoRet'.form.longitude))
        THEN SubmittedAccepted
        ELSE SubmittedRejected ]_vars

\* latitude 90 with longitude -180 was submitted and is the current location
C35_Witness ==
  /\ geoRet.op = "handleLocationSubmit"
  /\ geoRet.form.latitude = <<"9", "0">>
  /\ geoRet.form.longitude = <<"-", "1", "8", "0">>
  /\ app.currentLocation = Some(ManualLocation(900000, -1800000, ""))
  /\ currentLocation = app.currentLocation

\* latitude 90.0001 was submitted: the error is shown, the location is another
C35_WitnessRejected ==
  /\ geoRet.op = "handleLocationSubmit"
  /\ parseFloat(geoRet.form.latitude) = Number(900001)
  /\ window.dom.error.defined
  /\ app.currentLocation.defined
  /\ app.currentLocation.val.latitude # 900001

(***************************************************************************)
(* C36: destroy() stops all periodic work of the application.  After init  *)
(* has started the update loop and destroy() has been called, no periodic  *)
(* timer the application started remains scheduled (neither the 1-second   *)
(* countdown refresh nor the 5-minute full refresh fires again) and no     *)
(* position watch remains active.                                          *)
(***************************************************************************)
C36_DestroyStopsTimers ==
  [][ (geoRet'.op = "destroy" /\ app.updateInterval.defined) =>
        /\ window'.intervals = {}
        /\ navigator'.watches = {} ]_vars

\* the last handler the user ran chose a location
UserChose ==
  \/ geoRet.op = "locationClick"
  \/ /\ geoRet.op = "handleLocationSubmit"
     /\ InRange(parseFloat(geoRet.form.latitude), parseFloat(geoRet.form.longitude))

\* this step is the answer of the browser to a detection of the application
DetectionAnswered == geoRet'.op \in {"initialLocationCallback", "autoDetectCallback"}

(***************************************************************************)
(* C37: a location the user chooses is not overwritten by an older request *)
(* in flight.  If the user picks a location (form submit, search result or *)
(* recent-location click) while an auto-detection started earlier is still *)
(* pending, then once all callbacks have completed the current location of *)
(* the application is the user's later choice, in every interleaving; and  *)
(* the current location of the application equals the cached current       *)
(* location of the service after each completed change.                    *)
(***************************************************************************)
C37_UserChoiceKept ==
  [][ /\ (UserChose /\ pending # <<>> /\ DetectionAnswered /\ pending' = <<>>) =>
           app'.currentLocation = app.currentLocation
      /\ app'.currentLocation # app.currentLocation =>
           app'.currentLocation = currentLocation' ]_vars

====
